---- MODULE Spec2Model ----
(***************************************************************************)
(* Radiation source coupling (Radiation::AddSourceTerms, FourthPolyRoot)   *)
(* and radiation transport (RadIntegrator::CalculateFluxes,                *)
(* RadIntegrator::FluxDivergence) of athena-pku.                           *)
(*                                                                         *)
(* Real (double) values are modelled as fixed-point numbers k/Scale        *)
(* together with the IEEE special values NaN, +Inf and -Inf.  Sums are     *)
(* exact, products, quotients and roots are rounded to the grid.           *)
(***************************************************************************)
EXTENDS Integers, Sequences, FiniteSets, TLC

\* ------------------------------------------------------------------------
\* Real arithmetic
\* ------------------------------------------------------------------------
Scale == 1000

Num(n) == [k |-> "num", v |-> n]
NaN == [k |-> "nan", v |-> 0]
PInf == [k |-> "inf", v |-> 1]
NInf == [k |-> "inf", v |-> -1]
R(n) == Num(n * Scale)
Zero == Num(0)
One == R(1)

IsNaN(x) == x.k = "nan"
IsNum(x) == x.k = "num"
IsInf(x) == x.k = "inf"

AbsI(n) == IF n < 0 THEN -n ELSE n
SgnI(n) == IF n < 0 THEN -1 ELSE IF n > 0 THEN 1 ELSE 0
\* the function f with every value computed once
Eager(f) == f @@ f
\* v, with x computed first: the order of two statements of the code
After(x, v) == IF x = x THEN v ELSE v
Sgn(x) == IF IsInf(x) THEN x.v ELSE SgnI(x.v)
Inf(s) == IF s < 0 THEN NInf ELSE PInf

\* round(a*b/Scale) for a, b >= 0, without leaving the 32-bit range
MulI(a, b) ==
  LET ah == a \div Scale
      al == a % Scale
      bh == b \div Scale
      bl == b % Scale
  IN ah * bh * Scale + ah * bl + al * bh + (al * bl + Scale \div 2) \div Scale

\* round(a*Scale/b) for a >= 0, b > 0
DivI(a, b) ==
  LET q == a \div b
      r == a % b
  IN q * Scale + (r * Scale + b \div 2) \div b

\* r*r <= n * Scale, evaluated without overflow
SquareLe(r, n) ==
  LET rh == r \div Scale
      rl == r % Scale
      q == rh * rh * Scale + 2 * rh * rl + (rl * rl) \div Scale
  IN q < n \/ (q = n /\ (rl * rl) % Scale = 0)

RECURSIVE BSqrt(_, _, _)
BSqrt(lo, hi, n) ==
  IF hi - lo <= 1 THEN lo
  ELSE LET mid == (lo + hi) \div 2
       IN IF SquareLe(mid, n) THEN BSqrt(mid, hi, n) ELSE BSqrt(lo, mid, n)

\* grid value of sqrt(n/Scale) (rounded down), scaled
SqrtI(n) == BSqrt(0, 1400000, n)

\* r^3 <= n * Scale^2, evaluated without overflow
CubeLe(r, n) ==
  LET r2 == r * r
      hh == r2 \div Scale
      ll == r2 % Scale
      q == r * hh + (r * ll) \div Scale
  IN q < n * Scale \/ (q = n * Scale /\ (r * ll) % Scale = 0)

RECURSIVE BCbrt(_, _, _)
BCbrt(lo, hi, n) ==
  IF hi - lo <= 1 THEN lo
  ELSE LET mid == (lo + hi) \div 2
       IN IF CubeLe(mid, n) THEN BCbrt(mid, hi, n) ELSE BCbrt(lo, mid, n)

\* grid value of the cube root of n/Scale (rounded down), scaled
CbrtI(n) == BCbrt(0, 12601, n)

Neg(x) == IF IsNaN(x) THEN NaN ELSE [k |-> x.k, v |-> -x.v]

Add(x, y) ==
  IF IsNaN(x) \/ IsNaN(y) THEN NaN
  ELSE IF IsInf(x) /\ IsInf(y) THEN (IF x.v = y.v THEN x ELSE NaN)
  ELSE IF IsInf(x) THEN x
  ELSE IF IsInf(y) THEN y
  ELSE Num(x.v + y.v)

Sub(x, y) == Add(x, Neg(y))

Mul(x, y) ==
  IF IsNaN(x) \/ IsNaN(y) THEN NaN
  ELSE IF IsInf(x) \/ IsInf(y)
       THEN (IF Sgn(x) * Sgn(y) = 0 THEN NaN ELSE Inf(Sgn(x) * Sgn(y)))
  ELSE Num(SgnI(x.v) * SgnI(y.v) * MulI(AbsI(x.v), AbsI(y.v)))

Div(x, y) ==
  IF IsNaN(x) \/ IsNaN(y) THEN NaN
  ELSE IF IsInf(x) /\ IsInf(y) THEN NaN
  ELSE IF IsInf(x) THEN Inf(x.v * (IF y.v < 0 THEN -1 ELSE 1))
  ELSE IF IsInf(y) THEN Zero
  ELSE IF y.v = 0 THEN (IF x.v = 0 THEN NaN ELSE Inf(SgnI(x.v)))
  ELSE Num(SgnI(x.v) * SgnI(y.v) * DivI(AbsI(x.v), AbsI(y.v)))

\* x < y as the comparison of two doubles: false when either is NaN
Lt(x, y) ==
  IF IsNaN(x) \/ IsNaN(y) THEN FALSE
  ELSE IF IsInf(x) /\ IsInf(y) THEN x.v < y.v
  ELSE IF IsInf(x) THEN x.v < 0
  ELSE IF IsInf(y) THEN y.v > 0
  ELSE x.v < y.v

Gt(x, y) == Lt(y, x)
Le(x, y) == ~IsNaN(x) /\ ~IsNaN(y) /\ ~Lt(y, x)
Ge(x, y) == Le(y, x)
Eq(x, y) == ~IsNaN(x) /\ ~IsNaN(y) /\ x = y

\* std::min(a, b) is (b < a) ? b : a, std::max(a, b) is (a < b) ? b : a
StdMin(a, b) == IF Lt(b, a) THEN b ELSE a
StdMax(a, b) == IF Lt(a, b) THEN b ELSE a
StdAbs(x) == IF IsNaN(x) THEN NaN ELSE [k |-> x.k, v |-> AbsI(x.v)]
SQR(x) == Mul(x, x)

\* std::sqrt
Sqrt(x) ==
  IF IsNaN(x) THEN NaN
  ELSE IF IsInf(x) THEN (IF x.v > 0 THEN PInf ELSE NaN)
  ELSE IF x.v < 0 THEN NaN
  ELSE Num(SqrtI(x.v))

\* std::pow(x, 1.0/3.0): a negative finite base with a non-integer exponent
\* has no real result and yields NaN
PowThird(x) ==
  IF IsNaN(x) THEN NaN
  ELSE IF IsInf(x) THEN PInf
  ELSE IF x.v < 0 THEN NaN
  ELSE Num(CbrtI(x.v))

\* std::pow(x, -2.0/3.0)
PowMinusTwoThirds(x) ==
  IF IsNaN(x) THEN NaN
  ELSE IF IsInf(x) THEN Zero
  ELSE IF x.v < 0 THEN NaN
  ELSE IF x.v = 0 THEN PInf
  ELSE Div(One, SQR(Num(CbrtI(x.v))))

\* ------------------------------------------------------------------------
\* FourthPolyRoot: coef4 * x^4 + x + tconst = 0
\* ------------------------------------------------------------------------
\* Values of the model lie below 1.0e11; only +Inf exceeds it.
AboveCancelLimit(x) == x = PInf

FourthPolyRoot(coef4, tconst, root0) ==
  LET fail == [flag |-> FALSE, root |-> root0]
      ccubic == Mul(Mul(tconst, tconst), tconst)
      d1 == Sub(Num(Scale \div 4),
                Div(Mul(Mul(R(64), ccubic), coef4), R(27)))
      delta1 == Sqrt(d1)
      z0 == IF AboveCancelLimit(delta1)
            THEN Div(PowMinusTwoThirds(delta1), R(3))
            ELSE Sub(PowThird(Add(Num(Scale \div 2), delta1)),
                     PowThird(Add(Num(-(Scale \div 2)), delta1)))
      zroot == Mul(z0, PowMinusTwoThirds(coef4))
      rcoef == Sqrt(zroot)
      d2 == Add(Neg(zroot), Div(R(2), Mul(coef4, rcoef)))
      delta2 == Sqrt(d2)
      root == Mul(Num(Scale \div 2), Sub(delta2, rcoef))
  IN IF Lt(d1, Zero) THEN fail
     ELSE IF Lt(delta1, Num(Scale \div 2)) THEN fail
     ELSE IF Lt(z0, Zero) THEN fail
     ELSE IF Lt(d2, Zero) THEN fail
     ELSE IF Lt(root, Zero) THEN [flag |-> FALSE, root |-> root]
     ELSE [flag |-> TRUE, root |-> root]

\* ------------------------------------------------------------------------
\* Angular grid and frame geometry (inputs of AddSourceTerms)
\* ------------------------------------------------------------------------
NRows == 2
NCells == 2
nzeta == 2
npsi == 4
NGHOST_RAD == 1

zs == NGHOST_RAD
ze == zs + nzeta - 1
ps == NGHOST_RAD
pe == ps + npsi - 1

Rows == 1..NRows
Cells == 1..NCells

AngleInd_ActiveStride(l, m) == l * npsi + m
AngleInd(l, m) == l * (npsi + 2 * NGHOST_RAD) + m

nang_active == nzeta * npsi
\* n-th angle of the scan "polar index outer, azimuthal index inner"
AngleAt(n) == <<zs + ((n - 1) \div npsi), ps + ((n - 1) % npsi)>>
Angles == {AngleAt(n) : n \in 1..nang_active}
AngleIdx == {AngleInd(a[1], a[2]) : a \in Angles}

PI == Num(3142)
FourPi == Mul(R(4), PI)

\* tetrad-frame unit directions: the ring l = zs lies in the x-y plane, the
\* other rings are tilted out of it
RingPlane == << <<600, 800, 0>>, <<-800, 600, 0>>,
                <<-600, -800, 0>>, <<800, -600, 0>> >>
RingTilt == << <<600, 0, 800>>, <<0, 600, -800>>,
               <<-600, 0, 800>>, <<0, -600, -800>> >>

nh_cc_(n, l, m) ==
  IF n = 0 THEN One
  ELSE IF l = zs THEN Num(RingPlane[m - ps + 1][n])
  ELSE Num(RingTilt[m - ps + 1][n])

solid_angle(l, m) == Div(FourPi, R(nang_active))

\* ------------------------------------------------------------------------
\* State
\* ------------------------------------------------------------------------
VARIABLES
  pc,                \* position in the running function
  coef4, tconst, rootOut,      \* FourthPolyRoot call
  coupled_to_matter, affect_fluid, edd_fix, UserSourceTerm,
  dt, arad, alpha,   \* timestep, radiation constant, lapse of the metric
  opacity, prim_hydro_end_, eos_out,
  cons_rad, cons_hydro,
  row,               \* (k,j) row being processed
  moments_old_, moments_new_, u_tet_, ee_f_minus_, ee_f_plus_,
  tt_plus_, bad_cell_, solve_path_, edd_moments_,
  cons_rad_in, cons_hydro_in, hook_calls

\* RadIntegrator::CalculateFluxes and RadIntegrator::FluxDivergence
VARIABLES
  fpc,               \* which of the two calls of the substep is running
  block_size,        \* pmb->block_size: nx1, nx2, nx3
  step,              \* stage index of the substep
  nthreads,          \* pmb->pmy_mesh->GetNumMeshThreads()
  coord,             \* geometry the coordinates object supplies
  mu_kind,           \* velocity field prad->mu
  ir,                \* intensity array passed to both calls
  flux,              \* prad->flux[x1face], [x2face], [x3face]
  temp_i1_,          \* per-thread copy of ir
  tpos,              \* each thread's position in the parallel region
  ir_in, ir_div,     \* ir on entry to CalculateFluxes and to FluxDivergence
  flux_writes,       \* stores to each face of flux in this substep
  ir_writes,         \* stores to each cell of ir in this substep
  order_used,        \* flux routine called for each row and dimension
  div_terms          \* dimensions whose face terms entered each cell's update

VARIABLES
  ang_args,          \* the (l, m) pairs AngleInd is called with
  ang_ret            \* the flat index each call returned

VARIABLES
  spc,               \* position in the problem setup
  RADIATION_ENABLED, INCLUDE_CHEMISTRY,   \* build options
  nang, nfreq,       \* prad->nang, prad->nfreq
  index_cr_,         \* pscalars->chemnet.index_cr_
  G0_iang,           \* field strength per direction
  prad_ir,           \* prad->ir of the block being set up
  icell, ifreq, iang,      \* loop counters of ProblemGenerator
  g0_reads           \* indices G0_iang has been read at

rootVars == <<coef4, tconst, rootOut>>
cfgVars == <<coupled_to_matter, affect_fluid, edd_fix, UserSourceTerm,
             dt, arad, alpha, opacity, eos_out, cons_rad_in, cons_hydro_in>>
scratchVars == <<moments_old_, moments_new_, u_tet_, ee_f_minus_, ee_f_plus_,
                 tt_plus_, bad_cell_, solve_path_, edd_moments_>>
srcVars == <<prim_hydro_end_, cons_rad, cons_hydro, row, hook_calls>>
fluxVars == <<fpc, block_size, step, nthreads, coord, mu_kind, ir, flux,
              temp_i1_, tpos, ir_in, ir_div, flux_writes, ir_writes, order_used,
              div_terms>>
angleVars == <<ang_args, ang_ret>>
setupVars == <<spc, RADIATION_ENABLED, INCLUDE_CHEMISTRY, nang, nfreq,
               index_cr_, G0_iang, prad_ir, icell, ifreq, iang, g0_reads>>
auxVars == <<angleVars, setupVars>>
transportVars == <<fluxVars, auxVars>>
sourceVars == <<pc, rootVars, cfgVars, scratchVars, srcVars>>
vars == <<sourceVars, transportVars>>

\* coordinate-frame components: n^0 = 1/alpha, n_0 = -alpha, n_i = nh_i
nmu_(n, l, m) == Div(nh_cc_(n, l, m), alpha)
n0_n_mu_(n, l, m) ==
  IF n = 0 THEN Mul(nmu_(0, l, m), Neg(alpha))
  ELSE Mul(nmu_(0, l, m), nh_cc_(n, l, m))
\* spatial metric and normal-to-tetrad transformation of the cell
g_(a, b) == IF a = b THEN One ELSE Zero
norm_to_tet_(a, b) == IF a = b THEN One ELSE Zero

gamma_adi == Num(1500)
v_sq_max == Num(900)
TINY_NUMBER == Zero

HydroComps == {"IDN", "IM1", "IM2", "IM3", "IEN"}
PrimComps == {"IDN", "IVX", "IVY", "IVZ", "IPR"}

\* ------------------------------------------------------------------------
\* Radiation::AddSourceTerms, per-cell computations
\* ------------------------------------------------------------------------
Idx4 == 0..3

\* sum of F over the first n angles of the scan
RECURSIVE SumScan(_, _)
SumScan(F, n) ==
  IF n = 0 THEN Zero ELSE Add(SumScan(F, n - 1), F[AngleAt(n)])

SumAngles(F, n) == LET G == Eager(F) IN After(G, SumScan(G, n))

Rad(cr, r, i, l, m) == cr[<<r, i, AngleInd(l, m)>>]

\* zeroth (n = 0) and first (n = 1..3) moments of the radiation of a cell
RadMoment(cr, r, i, n) ==
  SumAngles([a \in Angles |->
      Mul(Div(Mul(n0_n_mu_(n, a[1], a[2]), Rad(cr, r, i, a[1], a[2])),
              n0_n_mu_(0, a[1], a[2])),
          solid_angle(a[1], a[2]))], nang_active)

\* fluid velocity in the tetrad frame
FluidVelocity(prim) ==
  LET uu1 == prim.IVX
      uu2 == prim.IVY
      uu3 == prim.IVZ
      two == R(2)
      temp_var ==
        Add(Add(Add(Add(Add(
          Mul(g_(1, 1), SQR(uu1)),
          Mul(Mul(Mul(two, g_(1, 2)), uu1), uu2)),
          Mul(Mul(Mul(two, g_(1, 3)), uu1), uu3)),
          Mul(g_(2, 2), SQR(uu2))),
          Mul(Mul(Mul(two, g_(2, 3)), uu2), uu3)),
          Mul(g_(3, 3), SQR(uu3)))
      uu0 == Sqrt(Add(One, temp_var))
  IN [n \in 0..3 |->
        Add(Add(Add(Mul(norm_to_tet_(n, 0), uu0), Mul(norm_to_tet_(n, 1), uu1)),
                Mul(norm_to_tet_(n, 2), uu2)),
            Mul(norm_to_tet_(n, 3), uu3))]

\* u_n = -u^0 n^0 + u^1 n^1 + u^2 n^2 + u^3 n^3 in the tetrad frame
UDotN(u, l, m) ==
  Add(Add(Add(Mul(Neg(u[0]), nh_cc_(0, l, m)), Mul(u[1], nh_cc_(1, l, m))),
          Mul(u[2], nh_cc_(2, l, m))),
      Mul(u[3], nh_cc_(3, l, m)))

\* radiation energy density in the fluid frame
EnergyDensity(cr, u, r, i) ==
  SumAngles([a \in Angles |->
      Mul(Mul(Div(Rad(cr, r, i, a[1], a[2]), n0_n_mu_(0, a[1], a[2])),
              SQR(UDotN(u, a[1], a[2]))),
          solid_angle(a[1], a[2]))], nang_active)

\* tetrad-frame radiation moment R^{ab}, a <= b
RRTet(cr, r, i, a, b) ==
  SumAngles([x \in Angles |->
      LET ii == Div(Rad(cr, r, i, x[1], x[2]), n0_n_mu_(0, x[1], x[2]))
          w == solid_angle(x[1], x[2])
      IN IF a = 0 /\ b = 0 THEN Mul(ii, w)
         ELSE IF a = 0 THEN Mul(Mul(ii, nh_cc_(b, x[1], x[2])), w)
         ELSE IF a = b THEN Mul(Mul(ii, SQR(nh_cc_(a, x[1], x[2]))), w)
         ELSE Mul(Mul(Mul(ii, nh_cc_(a, x[1], x[2])), nh_cc_(b, x[1], x[2])), w)],
    nang_active)

\* StepFraction without the clipping to [0, 1]
StepFraction_Unclipped(dmgas, mgas_rad, mgas) ==
  IF Eq(mgas_rad, mgas) THEN Zero ELSE Div(dmgas, Sub(mgas_rad, mgas))

\* relaxation fraction of one momentum component
StepFraction(dmgas, mgas_rad, mgas) ==
  LET frac == IF Eq(mgas_rad, mgas) THEN Zero
              ELSE Div(dmgas, Sub(mgas_rad, mgas))
  IN StdMin(StdMax(frac, Zero), One)

\* four-velocity of three-velocity (v1, v2, v3) and Lorentz factor u0
FourVelocity(v1, v2, v3, u0) ==
  After(u0, [n \in 0..3 |-> IF n = 0 THEN u0 ELSE IF n = 1 THEN Mul(u0, v1)
                            ELSE IF n = 2 THEN Mul(u0, v2) ELSE Mul(u0, v3)])

\* four-velocity of spatial components (n1, n2, n3)
NormalizeVelocity(n1, n2, n3) ==
  [n \in 0..3 |->
     IF n = 0 THEN Sqrt(Add(Add(Add(One, SQR(n1)), SQR(n2)), SQR(n3)))
     ELSE IF n = 1 THEN n1 ELSE IF n = 2 THEN n2 ELSE n3]

\* VelocityCap that caps the squared speed and leaves the components alone
VelocityCap_Unscaled(v1, v2, v3, vsq0) ==
  LET vrad_sq == IF Gt(vsq0, v_sq_max) THEN v_sq_max ELSE vsq0
  IN After(vsq0, FourVelocity(v1, v2, v3, Div(One, Sqrt(Sub(One, vrad_sq)))))

\* radiation-frame velocity (v1, v2, v3) of squared speed vsq0, rescaled
\* to v_sq_max when faster, as a four-velocity
VelocityCap(v1, v2, v3, vsq0) ==
  LET capped == Gt(vsq0, v_sq_max)
      ratio == Sqrt(Div(v_sq_max, vsq0))
      vrad_sq == IF capped THEN v_sq_max ELSE vsq0
  IN After(vsq0,
       FourVelocity(IF capped THEN Mul(v1, ratio) ELSE v1,
                    IF capped THEN Mul(v2, ratio) ELSE v2,
                    IF capped THEN Mul(v3, ratio) ELSE v3,
                    Div(One, Sqrt(Sub(One, vrad_sq)))))

\* four-velocity of the radiation frame from the tetrad-frame moments rr,
\* its speed capped at v_sq_max
RadiationFrameVelocity(rr) ==
  LET v1 == Div(rr[<<0, 1>>], rr[<<0, 0>>])
      v2 == Div(rr[<<0, 2>>], rr[<<0, 0>>])
      v3 == Div(rr[<<0, 3>>], rr[<<0, 0>>])
  IN VelocityCap(v1, v2, v3, Add(Add(SQR(v1), SQR(v2)), SQR(v3)))

\* gas momentum change of component n over the step, before limiting
MomentumChange(u, ee, prim, opa, rr, n) ==
  LET rho == prim.IDN
      tt == Div(prim.IPR, rho)
      k_a == Mul(rho, opa.OPAA)
      k_s == Mul(rho, opa.OPAS)
      emis == Add(Mul(Mul(k_a, arad), SQR(SQR(tt))), Mul(k_s, ee))
      gg ==
        Sub(Mul(Neg(emis), u[n]),
            Mul(Add(k_a, k_s),
                Add(Add(Add(Mul(Neg(u[0]), rr[<<0, n>>]),
                            Mul(u[1], rr[<<IF 1 < n THEN 1 ELSE n,
                                           IF 1 < n THEN n ELSE 1>>])),
                        Mul(u[2], rr[<<IF 2 < n THEN 2 ELSE n,
                                       IF 2 < n THEN n ELSE 2>>])),
                    Mul(u[3], rr[<<n, 3>>]))))
  IN Mul(Div(dt, u[0]), gg)

\* relaxation fraction of momentum component n towards the radiation frame
MomentumFraction(u, ee, prim, opa, rr, urad, n) ==
  LET egas == Add(prim.IDN, Div(prim.IPR, Sub(gamma_adi, One)))
      wgas == Add(egas, prim.IPR)
  IN StepFraction(MomentumChange(u, ee, prim, opa, rr, n),
                  Mul(Mul(wgas, urad[0]), urad[n]),
                  Mul(Mul(wgas, u[0]), u[n]))

\* velocity blended between the fluid and the radiation frame
BlendVelocity(u, urad, frac) ==
  LET n1 == Add(Mul(Sub(One, frac[1]), u[1]), Mul(frac[1], urad[1]))
      n2 == Add(Mul(Sub(One, frac[2]), u[2]), Mul(frac[2], urad[2]))
      n3 == Add(Mul(Sub(One, frac[3]), u[3]), Mul(frac[3], urad[3]))
  IN NormalizeVelocity(n1, n2, n3)

\* the limiting of one cell, given the moments and the radiation frame
RelaxVelocity(u, ee, prim, opa, rr, urad) ==
  After(urad,
    BlendVelocity(u, urad,
      Eager([n \in 1..3 |-> MomentumFraction(u, ee, prim, opa, rr, urad, n)])))

\* the limiting of one cell, given the tetrad-frame moments
LimitVelocityFrom(u, ee, prim, opa, rr) ==
  After(rr, RelaxVelocity(u, ee, prim, opa, rr, RadiationFrameVelocity(rr)))

\* LimitVelocity without the test of radiation domination
LimitVelocity_Always(cr, u, ee, prim, opa, r, i) ==
  LimitVelocityFrom(u, ee, prim, opa,
    Eager([x \in {y \in Idx4 \X Idx4 : y[1] <= y[2]} |->
             RRTet(cr, r, i, x[1], x[2])]))

\* velocity of the cell after the radiation-dominated modification
LimitVelocity(cr, u, ee, prim, opa, r, i) ==
  IF Le(ee, Add(prim.IDN, Div(prim.IPR, Sub(gamma_adi, One)))) THEN u
  ELSE LimitVelocityFrom(u, ee, prim, opa,
         Eager([x \in {y \in Idx4 \X Idx4 : y[1] <= y[2]} |->
                  RRTet(cr, r, i, x[1], x[2])]))

\* implicit factor of one angle in the temperature sub-step
ImplicitFactorTemp(k_tot, u_n, l, m) ==
  Sub(One, Div(Mul(Mul(dt, k_tot), u_n), nmu_(0, l, m)))

\* implicit factor of one angle in the intensity update
ImplicitFactorInt(k_tot, u_n, l, m) ==
  Sub(One, Mul(Mul(Mul(dt, k_tot), u_n), nmu_(0, l, m)))

\* angular sums of the temperature sub-step of a cell
TemperatureSums(cr, u, prim, opa, r, i) ==
  LET k_tot == Add(Mul(prim.IDN, opa.OPAA), Mul(prim.IDN, opa.OPAS))
      u_n(a) == UDotN(u, a[1], a[2])
      var_c(a) == Mul(Mul(Div(Rad(cr, r, i, a[1], a[2]),
                              n0_n_mu_(0, a[1], a[2])),
                          SQR(u_n(a))), solid_angle(a[1], a[2]))
      var_d(a) == ImplicitFactorTemp(k_tot, u_n(a), a[1], a[2])
  IN [ee_minus |-> SumAngles([a \in Angles |-> var_c(a)], nang_active),
      var_a |-> SumAngles([a \in Angles |-> Div(var_c(a), var_d(a))],
                          nang_active),
      var_b |-> Mul(SumAngles([a \in Angles |->
                       Div(solid_angle(a[1], a[2]),
                           Mul(Mul(u_n(a), nmu_(0, a[1], a[2])), var_d(a)))],
                       nang_active),
                    Div(dt, FourPi))]

\* coefficients of the temperature polynomial from the angular sums
TemperatureCoeffs(prim, opa, sums) ==
  LET rho == prim.IDN
      k_s == Mul(rho, opa.OPAS)
      scat == Add(One, Mul(sums.var_b, k_s))
      coeff_1 == Mul(Div(Neg(rho), Sub(gamma_adi, One)), scat)
  IN After(sums,
       [ee_minus |-> sums.ee_minus,
        coeff_4 |-> Mul(Mul(sums.var_b, Mul(rho, opa.OPAA)), arad),
        coeff_1 |-> coeff_1,
        coeff_0 |-> Sub(Add(Mul(Neg(coeff_1), Div(prim.IPR, rho)),
                            Mul(scat, sums.ee_minus)),
                        sums.var_a)])

\* SolvePath that sends a vanishing quartic coefficient to the fourth-root
\* formula
SolvePath_NoLinear(prim, opa, c) ==
  IF ~Gt(Mul(prim.IDN, opa.OPAA), Zero) THEN "none"
  ELSE IF Gt(StdAbs(c.coeff_4), TINY_NUMBER)
          /\ Gt(StdAbs(c.coeff_1), TINY_NUMBER) THEN "quartic"
  ELSE "biquadratic"

\* which of the three solves the coefficients select
SolvePath(prim, opa, c) ==
  IF ~Gt(Mul(prim.IDN, opa.OPAA), Zero) THEN "none"
  ELSE IF Gt(StdAbs(c.coeff_4), TINY_NUMBER)
          /\ Gt(StdAbs(c.coeff_1), TINY_NUMBER) THEN "quartic"
  ELSE IF Gt(StdAbs(c.coeff_4), TINY_NUMBER) THEN "biquadratic"
  ELSE "linear"

\* flag and temperature of the selected solve; tt_old is the value left in
\* tt_plus_
SolveTemperature(c, path, tt_old) ==
  IF path = "quartic"
  THEN FourthPolyRoot(Div(c.coeff_4, c.coeff_1), Div(c.coeff_0, c.coeff_1),
                      tt_old)
  ELSE IF path = "biquadratic"
  THEN [flag |-> TRUE, root |-> Sqrt(Sqrt(Div(Neg(c.coeff_0), c.coeff_4)))]
  ELSE [flag |-> TRUE, root |-> Div(Neg(c.coeff_0), c.coeff_1)]

\* TemperatureResult without the clamp of the energy density at zero
TemperatureResult_Unclamped(prim, ee_minus, path, bad, tt_try, ee_old) ==
  LET tt_minus == Div(prim.IPR, prim.IDN)
      tt_plus == IF path = "none" \/ bad THEN tt_minus ELSE tt_try
      ee_new == IF ~bad
                THEN Add(ee_minus,
                         Mul(Div(prim.IDN, Sub(gamma_adi, One)),
                             Sub(tt_minus, tt_plus)))
                ELSE ee_old
  IN [ee_minus |-> ee_minus, tt_plus |-> tt_plus, bad |-> bad,
      ee_plus |-> ee_new, path |-> path]

\* temperature and energy density kept for the cell; ee_old is the value
\* left in ee_f_plus_
TemperatureResult(prim, ee_minus, path, bad, tt_try, ee_old) ==
  LET tt_minus == Div(prim.IPR, prim.IDN)
      tt_plus == IF path = "none" \/ bad THEN tt_minus ELSE tt_try
      ee_new == IF ~bad
                THEN Add(ee_minus,
                         Mul(Div(prim.IDN, Sub(gamma_adi, One)),
                             Sub(tt_minus, tt_plus)))
                ELSE ee_old
  IN [ee_minus |-> ee_minus, tt_plus |-> tt_plus, bad |-> bad,
      ee_plus |-> StdMax(ee_new, Zero), path |-> path]

\* the solve of a cell checked: a false flag or a NaN marks the cell bad
CheckSolve(prim, ee_minus, path, sol, ee_old) ==
  After(sol,
    TemperatureResult(prim, ee_minus, path,
                      path # "none" /\ (~sol.flag \/ IsNaN(sol.root)),
                      sol.root, ee_old))

\* the temperature sub-step of a cell from its polynomial coefficients
TemperatureFrom(prim, opa, c, path, tt_old, ee_old) ==
  After(c, CheckSolve(prim, c.ee_minus, path,
                      SolveTemperature(c, path, tt_old), ee_old))

\* the temperature sub-step with the path chosen from the coefficients
TemperatureWith(prim, opa, c, tt_old, ee_old) ==
  TemperatureFrom(prim, opa, c, SolvePath(prim, opa, c), tt_old, ee_old)

\* new gas temperature and radiation energy density of a cell;
\* tt_old and ee_old are the values left in tt_plus_ and ee_f_plus_
TemperatureStep(cr, u, prim, opa, r, i, tt_old, ee_old) ==
  TemperatureWith(prim, opa,
    TemperatureCoeffs(prim, opa, TemperatureSums(cr, u, prim, opa, r, i)),
    tt_old, ee_old)

\* IntensityStep without the clamp of the stored value at zero
IntensityStep_Unclamped(cr, u, prim, opa, r, i, l, m, tt_plus, ee_plus) ==
  LET rho == prim.IDN
      k_a == Mul(rho, opa.OPAA)
      k_s == Mul(rho, opa.OPAS)
      k_tot == Add(k_a, k_s)
      n0 == n0_n_mu_(0, l, m)
      ii_minus == Div(Rad(cr, r, i, l, m), n0)
      u_n == UDotN(u, l, m)
      src == Add(Mul(Mul(k_a, arad), SQR(SQR(tt_plus))), Mul(k_s, ee_plus))
      den == Mul(Mul(Mul(Mul(FourPi, u_n), u_n), u_n), nmu_(0, l, m))
      ii_plus == Div(Sub(ii_minus, Mul(Div(dt, den), src)),
                     ImplicitFactorInt(k_tot, u_n, l, m))
  IN Add(Rad(cr, r, i, l, m), Mul(Sub(ii_plus, ii_minus), n0))

\* IntensityStep whose source term leaves out the opacity factors
IntensityStep_SourceWithoutOpacity(cr, u, prim, opa, r, i, l, m, tt_plus, ee_plus) ==
  LET rho == prim.IDN
      k_a == Mul(rho, opa.OPAA)
      k_s == Mul(rho, opa.OPAS)
      k_tot == Add(k_a, k_s)
      n0 == n0_n_mu_(0, l, m)
      ii_minus == Div(Rad(cr, r, i, l, m), n0)
      u_n == UDotN(u, l, m)
      src == Add(Mul(arad, SQR(SQR(tt_plus))), ee_plus)
      den == Mul(Mul(Mul(Mul(FourPi, u_n), u_n), u_n), nmu_(0, l, m))
      ii_plus == Div(Sub(ii_minus, Mul(Div(dt, den), src)),
                     ImplicitFactorInt(k_tot, u_n, l, m))
      upd == Add(Rad(cr, r, i, l, m), Mul(Sub(ii_plus, ii_minus), n0))
  IN StdMin(upd, Zero)

\* conserved intensity of one angle after the implicit update
IntensityStep(cr, u, prim, opa, r, i, l, m, tt_plus, ee_plus) ==
  LET rho == prim.IDN
      k_a == Mul(rho, opa.OPAA)
      k_s == Mul(rho, opa.OPAS)
      k_tot == Add(k_a, k_s)
      n0 == n0_n_mu_(0, l, m)
      ii_minus == Div(Rad(cr, r, i, l, m), n0)
      u_n == UDotN(u, l, m)
      src == Add(Mul(Mul(k_a, arad), SQR(SQR(tt_plus))), Mul(k_s, ee_plus))
      den == Mul(Mul(Mul(Mul(FourPi, u_n), u_n), u_n), nmu_(0, l, m))
      ii_plus == Div(Sub(ii_minus, Mul(Div(dt, den), src)),
                     ImplicitFactorInt(k_tot, u_n, l, m))
      upd == Add(Rad(cr, r, i, l, m), Mul(Sub(ii_plus, ii_minus), n0))
  IN StdMin(upd, Zero)

\* ------------------------------------------------------------------------
\* Eddington factor correction of the ring l = zs
\* ------------------------------------------------------------------------
RECURSIVE SumUpTo(_, _)
SumUpTo(F, n) == IF n < 0 THEN Zero ELSE Add(SumUpTo(F, n - 1), F[n])

\* sum of F over the indices 0..n
SumIdx(F, n) == LET G == Eager(F) IN After(G, SumUpTo(G, n))

\* boost from the tetrad frame to the fluid frame
TetToFluid(u, a, b) ==
  IF a = 0 /\ b = 0 THEN u[0]
  ELSE IF a = 0 THEN Neg(u[b])
  ELSE IF b = 0 THEN Neg(u[a])
  ELSE IF a = b THEN Add(Div(SQR(u[a]), Add(One, u[0])), One)
  ELSE Div(Mul(u[a], u[b]), Add(One, u[0]))

NFluid(u, n, m) ==
  SumIdx([b \in Idx4 |-> Mul(TetToFluid(u, n, b), nh_cc_(b, zs, m))], 3)

\* forward transformation: row = moment, column = angle of the ring
IiToMoment(u) ==
  Eager([x \in Idx4 \X Idx4 |->
    LET m == ps + x[2]
    IN IF x[1] = 0 THEN Mul(NFluid(u, 0, m), NFluid(u, 0, m))
       ELSE IF x[1] = 1 THEN Mul(NFluid(u, 0, m), NFluid(u, 1, m))
       ELSE IF x[1] = 2 THEN Mul(NFluid(u, 0, m), NFluid(u, 2, m))
       ELSE Mul(NFluid(u, 1, m), NFluid(u, 2, m))])

\* moments of the ring; the fourth moment is left at zero
EddMoments(cr, u, r, i) ==
  LET M == IiToMoment(u)
  IN Eager([n_mom \in Idx4 |->
       IF n_mom = 3 THEN Zero
       ELSE SumIdx([n_ii \in Idx4 |->
              Mul(Div(Mul(M[<<n_mom, n_ii>>], Rad(cr, r, i, zs, ps + n_ii)),
                      n0_n_mu_(0, zs, ps + n_ii)),
                  solid_angle(zs, ps + n_ii))], 3)])

Identity4 == Eager([x \in Idx4 \X Idx4 |-> IF x[1] = x[2] THEN One ELSE Zero])

\* Gauss-Jordan elimination on the diagonal, from pivot aa on
RECURSIVE GaussJordan(_, _, _)
GaussJordan(A, B, aa) ==
  IF aa > 3 THEN B
  ELSE LET p == A[<<aa, aa>>]
           A1 == Eager([x \in Idx4 \X Idx4 |->
                    IF x[1] = aa THEN Div(A[x], p) ELSE A[x]])
           B1 == Eager([x \in Idx4 \X Idx4 |->
                    IF x[1] = aa THEN Div(B[x], p) ELSE B[x]])
           A2 == Eager([x \in Idx4 \X Idx4 |->
                    IF x[1] = aa THEN A1[x]
                    ELSE Sub(A1[x], Mul(A1[<<x[1], aa>>], A1[<<aa, x[2]>>]))])
           B2 == Eager([x \in Idx4 \X Idx4 |->
                    IF x[1] = aa THEN B1[x]
                    ELSE Sub(B1[x], Mul(A1[<<x[1], aa>>], B1[<<aa, x[2]>>]))])
       IN GaussJordan(A2, B2, aa + 1)

MomentToIi(u) == GaussJordan(IiToMoment(u), Identity4, 0)

\* corrected conserved intensities of the ring, by azimuthal index
EddCorrect_Unclamped(cr, u, r, i) ==
  LET inv == MomentToIi(u)
      mom == EddMoments(cr, u, r, i)
  IN Eager([m \in ps..pe |->
       Mul(SumIdx([n_mom \in Idx4 |->
                     Mul(inv[<<m - ps, n_mom>>], mom[n_mom])], 3),
           Div(n0_n_mu_(0, zs, m), solid_angle(zs, m)))])

EddCorrect(cr, u, r, i) ==
  LET inv == MomentToIi(u)
      mom == EddMoments(cr, u, r, i)
  IN Eager([m \in ps..pe |->
       StdMin(Mul(SumIdx([n_mom \in Idx4 |->
                            Mul(inv[<<m - ps, n_mom>>], mom[n_mom])], 3),
                  Div(n0_n_mu_(0, zs, m), solid_angle(zs, m))),
              Zero)])

\* ------------------------------------------------------------------------
\* Inputs of AddSourceTerms
\* ------------------------------------------------------------------------
\* kinds of cell: 1 absorbing, isotropic field; 2 transparent, one angle with
\* positive conserved intensity; 3 transparent moving fluid, beamed field;
\* 4 absorbing, positive conserved intensities; 5 absorbing and scattering
\* moving fluid, beamed field; 6 absorbing and scattering, faint field;
\* 7 transparent, all the radiation of the ring in one angle; 8 absorbing and
\* scattering, all the radiation in one angle; 9 as 8 with a faint field
CellKinds == 1..9

KindRad(kind, l, m) ==
  LET beam == l = zs /\ m = ps
  IN CASE kind = 1 -> R(-1)
       [] kind = 2 -> IF beam THEN R(1) ELSE R(-2)
       [] kind = 3 -> IF beam THEN R(-4) ELSE R(-1)
       [] kind = 4 -> R(3)
       [] kind = 5 -> IF beam THEN R(-4) ELSE R(-1)
       [] kind = 7 -> IF beam THEN R(-8) ELSE IF l = zs THEN Zero ELSE R(-1)
       [] kind = 8 -> IF beam THEN R(-8) ELSE Zero
       [] kind = 9 -> IF beam THEN Num(-400) ELSE Zero
       [] OTHER -> Num(-100)

KindOpacity(kind) ==
  CASE kind \in {2, 3, 7} -> [OPAA |-> Zero, OPAS |-> Zero]
    [] kind \in {1, 4} -> [OPAA |-> One, OPAS |-> Zero]
    [] OTHER -> [OPAA |-> One, OPAS |-> One]

KindPrim(kind) ==
  [IDN |-> One, IPR |-> One,
   IVX |-> IF kind \in {3, 5} THEN Num(750) ELSE Zero,
   IVY |-> Zero, IVZ |-> Zero]

KindHydro(kind) ==
  [IDN |-> One, IM1 |-> IF kind \in {3, 5} THEN One ELSE Zero,
   IM2 |-> Zero, IM3 |-> Zero, IEN |-> R(5)]

AngleOf(lm) == CHOOSE a \in Angles : AngleInd(a[1], a[2]) = lm

ZeroCells == [i \in Cells |-> Zero]
ZeroVec == [i \in Cells |-> [n \in 0..3 |-> Zero]]

\* timestep, radiation constant and lapse of a run: a plain run, a run with
\* no thermal emission (arad = 0), a short step in a metric with lapse 2
\* no substep of the transport integrator in progress
IdleFlux ==
  /\ fpc = "idle"
  /\ block_size = <<>> /\ step = 0 /\ nthreads = 0
  /\ coord = "none" /\ mu_kind = "none"
  /\ ir = <<>> /\ flux = <<>> /\ temp_i1_ = <<>> /\ tpos = <<>>
  /\ ir_in = <<>> /\ ir_div = <<>>
  /\ flux_writes = <<>> /\ ir_writes = <<>>
  /\ order_used = <<>> /\ div_terms = <<>>

\* nothing outside AddSourceTerms and FourthPolyRoot in progress
IdleAngle == ang_args = <<>> /\ ang_ret = <<>>

IdleSetup ==
  /\ spc = "idle"
  /\ RADIATION_ENABLED = FALSE /\ INCLUDE_CHEMISTRY = FALSE
  /\ nang = 0 /\ nfreq = 0 /\ index_cr_ = 0
  /\ G0_iang = <<>> /\ prad_ir = <<>>
  /\ icell = 0 /\ ifreq = 0 /\ iang = 0
  /\ g0_reads = {}

IdleAux == IdleAngle /\ IdleSetup

IdleTransport == IdleFlux /\ IdleAux

SourceConfigs ==
  { [dt |-> One, arad |-> One, alpha |-> One],
    [dt |-> One, arad |-> Zero, alpha |-> One],
    [dt |-> Num(100), arad |-> One, alpha |-> R(2)] }

\* the kind of cell that alternates with cells of kind ka on the block
NextKind(ka) == (ka % 9) + 1

Init ==
  /\ pc = "start"
  /\ coef4 = Zero /\ tconst = Zero
  /\ rootOut = [flag |-> FALSE, root |-> Zero]
  /\ coupled_to_matter \in BOOLEAN
  /\ affect_fluid \in BOOLEAN
  /\ edd_fix \in BOOLEAN
  /\ UserSourceTerm \in BOOLEAN
  /\ \E cfg \in SourceConfigs :
       dt = cfg.dt /\ arad = cfg.arad /\ alpha = cfg.alpha
  /\ \E ka \in CellKinds :
       LET kind(r, i) == IF (r + i) % 2 = 0 THEN ka ELSE NextKind(ka)
       IN /\ opacity = [x \in Rows \X Cells |-> KindOpacity(kind(x[1], x[2]))]
          /\ eos_out = [x \in Rows \X Cells |-> KindPrim(kind(x[1], x[2]))]
          /\ cons_hydro = [x \in Rows \X Cells |->
                             KindHydro(kind(x[1], x[2]))]
          /\ cons_rad = [x \in Rows \X Cells \X AngleIdx |->
                           KindRad(kind(x[1], x[2]), AngleOf(x[3])[1],
                                   AngleOf(x[3])[2])]
  /\ prim_hydro_end_ = [x \in Rows \X Cells |->
                          [IDN |-> Zero, IPR |-> Zero, IVX |-> Zero,
                           IVY |-> Zero, IVZ |-> Zero]]
  /\ row = 0
  /\ moments_old_ = ZeroVec /\ moments_new_ = ZeroVec /\ u_tet_ = ZeroVec
  /\ ee_f_minus_ = ZeroCells /\ ee_f_plus_ = ZeroCells
  /\ tt_plus_ = ZeroCells
  /\ bad_cell_ = [i \in Cells |-> FALSE]
  /\ solve_path_ = [i \in Cells |-> "none"]
  /\ edd_moments_ = ZeroVec
  /\ cons_rad_in = cons_rad /\ cons_hydro_in = cons_hydro
  /\ hook_calls = 0
  /\ IdleTransport

\* ------------------------------------------------------------------------
\* Radiation::AddSourceTerms
\* ------------------------------------------------------------------------
\* Start with the test of coupled_to_matter left out
Start_AlwaysCoupled ==
  /\ pc = "start"
  /\ prim_hydro_end_' = eos_out
  /\ row' = 1
  /\ pc' = "moments_old"
  /\ UNCHANGED <<transportVars, rootVars, cfgVars, scratchVars, cons_rad, cons_hydro,
                 hook_calls>>

\* primitive hydro state at end of stage, when coupled to matter
Start ==
  /\ pc = "start"
  /\ IF coupled_to_matter
     THEN /\ prim_hydro_end_' = eos_out
          /\ row' = 1
          /\ pc' = "moments_old"
     ELSE /\ UNCHANGED <<prim_hydro_end_, row>>
          /\ pc' = "user"
  /\ UNCHANGED <<transportVars, rootVars, cfgVars, scratchVars, cons_rad, cons_hydro,
                 hook_calls>>

\* zeroth and first moments of radiation before coupling
MomentsOld ==
  /\ pc = "moments_old"
  /\ moments_old_' =
       IF affect_fluid
       THEN [i \in Cells |-> [n \in 0..3 |-> RadMoment(cons_rad, row, i, n)]]
       ELSE moments_old_
  /\ pc' = "u_tet"
  /\ UNCHANGED <<transportVars, rootVars, cfgVars, srcVars, moments_new_, u_tet_,
                 ee_f_minus_, ee_f_plus_, tt_plus_, bad_cell_, solve_path_, edd_moments_>>

CalcFluidVelocity ==
  /\ pc = "u_tet"
  /\ u_tet_' = [i \in Cells |-> FluidVelocity(prim_hydro_end_[<<row, i>>])]
  /\ pc' = "ee_f"
  /\ UNCHANGED <<transportVars, rootVars, cfgVars, srcVars, moments_old_, moments_new_,
                 ee_f_minus_, ee_f_plus_, tt_plus_, bad_cell_, solve_path_, edd_moments_>>

\* CalcEnergyDensity that also clamps the intensities of the row
CalcEnergyDensity_ClampsIntensity ==
  /\ pc = "ee_f"
  /\ ee_f_minus_' = [i \in Cells |->
                       EnergyDensity(cons_rad, u_tet_[i], row, i)]
  /\ cons_rad' = [x \in DOMAIN cons_rad |->
                    IF x[1] = row THEN StdMin(cons_rad[x], Zero)
                    ELSE cons_rad[x]]
  /\ pc' = "vel_limit"
  /\ UNCHANGED <<transportVars, rootVars, cfgVars, prim_hydro_end_, cons_hydro,
                 row, hook_calls, moments_old_, moments_new_, u_tet_,
                 ee_f_plus_, tt_plus_, bad_cell_, solve_path_, edd_moments_>>

CalcEnergyDensity ==
  /\ pc = "ee_f"
  /\ ee_f_minus_' = [i \in Cells |->
                       EnergyDensity(cons_rad, u_tet_[i], row, i)]
  /\ pc' = "vel_limit"
  /\ UNCHANGED <<transportVars, rootVars, cfgVars, srcVars, moments_old_, moments_new_,
                 u_tet_, ee_f_plus_, tt_plus_, bad_cell_, solve_path_, edd_moments_>>

ModifyVelocity ==
  /\ pc = "vel_limit"
  /\ u_tet_' = [i \in Cells |->
                  LimitVelocity(cons_rad, u_tet_[i], ee_f_minus_[i],
                                prim_hydro_end_[<<row, i>>],
                                opacity[<<row, i>>], row, i)]
  /\ pc' = "temperature"
  /\ UNCHANGED <<transportVars, rootVars, cfgVars, srcVars, moments_old_, moments_new_,
                 ee_f_minus_, ee_f_plus_, tt_plus_, bad_cell_, solve_path_, edd_moments_>>

\* the results of the temperature sub-step written to the row's scratch arrays
StoreTemperature(res) ==
  /\ ee_f_minus_' = [i \in Cells |-> res[i].ee_minus]
  /\ tt_plus_' = [i \in Cells |-> res[i].tt_plus]
  /\ bad_cell_' = [i \in Cells |-> res[i].bad]
  /\ ee_f_plus_' = [i \in Cells |-> res[i].ee_plus]
  /\ solve_path_' = [i \in Cells |-> res[i].path]

CalcTemperature ==
  /\ pc = "temperature"
  /\ StoreTemperature(Eager([i \in Cells |->
                   TemperatureStep(cons_rad, u_tet_[i],
                                   prim_hydro_end_[<<row, i>>],
                                   opacity[<<row, i>>], row, i,
                                   tt_plus_[i], ee_f_plus_[i])]))
  /\ pc' = "intensity"
  /\ UNCHANGED <<transportVars, rootVars, cfgVars, srcVars, moments_old_, moments_new_,
                 u_tet_, edd_moments_>>

CalcIntensity ==
  /\ pc = "intensity"
  /\ cons_rad' =
       [x \in DOMAIN cons_rad |->
          IF x[1] = row /\ ~bad_cell_[x[2]]
          THEN IntensityStep(cons_rad, u_tet_[x[2]],
                             prim_hydro_end_[<<row, x[2]>>],
                             opacity[<<row, x[2]>>], row, x[2],
                             AngleOf(x[3])[1], AngleOf(x[3])[2],
                             tt_plus_[x[2]], ee_f_plus_[x[2]])
          ELSE cons_rad[x]]
  /\ pc' = "edd"
  /\ UNCHANGED <<transportVars, rootVars, cfgVars, scratchVars, prim_hydro_end_, cons_hydro,
                 row, hook_calls>>

\* StoreRing that writes the corrected ring to every polar index
StoreRing_AllPolar(ring) ==
  cons_rad' = [x \in DOMAIN cons_rad |->
                 IF x[1] = row THEN ring[x[2]][AngleOf(x[3])[2]]
                 ELSE cons_rad[x]]

\* the corrected intensities written to the ring l = zs of the row
StoreRing(ring) ==
  cons_rad' = [x \in DOMAIN cons_rad |->
                 IF x[1] = row /\ AngleOf(x[3])[1] = zs
                 THEN ring[x[2]][AngleOf(x[3])[2]]
                 ELSE cons_rad[x]]

EddingtonFix ==
  /\ pc = "edd"
  /\ IF edd_fix
     THEN /\ edd_moments_' = [i \in Cells |->
                                EddMoments(cons_rad, u_tet_[i], row, i)]
          /\ StoreRing(Eager([i \in Cells |->
                                EddCorrect(cons_rad, u_tet_[i], row, i)]))
     ELSE UNCHANGED <<cons_rad, edd_moments_>>
  /\ pc' = "moments_new"
  /\ UNCHANGED <<transportVars, rootVars, cfgVars, moments_old_,
                 moments_new_, u_tet_, ee_f_minus_, ee_f_plus_, tt_plus_,
                 bad_cell_, solve_path_, prim_hydro_end_, cons_hydro, row,
                 hook_calls>>

\* zeroth and first moments of radiation after coupling
MomentsNew ==
  /\ pc = "moments_new"
  /\ moments_new_' =
       IF affect_fluid
       THEN [i \in Cells |-> [n \in 0..3 |-> RadMoment(cons_rad, row, i, n)]]
       ELSE moments_new_
  /\ pc' = "apply_fluid"
  /\ UNCHANGED <<transportVars, rootVars, cfgVars, srcVars, moments_old_, u_tet_,
                 ee_f_minus_, ee_f_plus_, tt_plus_, bad_cell_, solve_path_, edd_moments_>>

\* FluidExchange that also adds the energy exchange to the density
FluidExchange_WithDensity(h, mold, mnew) ==
  [h EXCEPT !.IDN = Add(h.IDN, Sub(mold[0], mnew[0])),
            !.IEN = Add(h.IEN, Sub(mold[0], mnew[0])),
            !.IM1 = Add(h.IM1, Sub(mold[1], mnew[1])),
            !.IM2 = Add(h.IM2, Sub(mold[2], mnew[2])),
            !.IM3 = Add(h.IM3, Sub(mold[3], mnew[3]))]

\* FluidExchange that adds (after - before) instead of (before - after)
FluidExchange_SignFlipped(h, mold, mnew) ==
  [h EXCEPT !.IEN = Add(h.IEN, Sub(mnew[0], mold[0])),
            !.IM1 = Add(h.IM1, Sub(mnew[1], mold[1])),
            !.IM2 = Add(h.IM2, Sub(mnew[2], mold[2])),
            !.IM3 = Add(h.IM3, Sub(mnew[3], mold[3]))]

\* fluid conserved variables of a cell after the coupling exchange
FluidExchange(h, mold, mnew) ==
  [h EXCEPT !.IEN = Add(h.IEN, Sub(mold[0], mnew[0])),
            !.IM1 = Add(h.IM1, Sub(mold[1], mnew[1])),
            !.IM2 = Add(h.IM2, Sub(mold[2], mnew[2])),
            !.IM3 = Add(h.IM3, Sub(mold[3], mnew[3]))]

ApplyToFluid ==
  /\ pc = "apply_fluid"
  /\ cons_hydro' =
       IF affect_fluid
       THEN [x \in DOMAIN cons_hydro |->
               IF x[1] = row
               THEN FluidExchange(cons_hydro[x], moments_old_[x[2]],
                                  moments_new_[x[2]])
               ELSE cons_hydro[x]]
       ELSE cons_hydro
  /\ pc' = "row_next"
  /\ UNCHANGED <<transportVars, rootVars, cfgVars, scratchVars, prim_hydro_end_, cons_rad,
                 row, hook_calls>>

\* advance of the loops over k and j
NextRow ==
  /\ pc = "row_next"
  /\ IF row < NRows
     THEN row' = row + 1 /\ pc' = "moments_old"
     ELSE row' = row /\ pc' = "user"
  /\ UNCHANGED <<transportVars, rootVars, cfgVars, scratchVars, prim_hydro_end_, cons_rad,
                 cons_hydro, hook_calls>>

\* what a registered user source term may add to the conserved intensities
HookDeltas == {Zero, R(-1)}

\* UserSource that calls the hook whether or not one is registered
UserSource_Unconditional ==
  /\ pc = "user"
  /\ \E d \in HookDeltas :
       cons_rad' = [x \in DOMAIN cons_rad |-> Add(cons_rad[x], d)]
  /\ hook_calls' = hook_calls + 1
  /\ pc' = "done"
  /\ UNCHANGED <<transportVars, rootVars, cfgVars, scratchVars, prim_hydro_end_, cons_hydro,
                 row>>

UserSource ==
  /\ pc = "user"
  /\ IF UserSourceTerm
     THEN /\ \E d \in HookDeltas :
               cons_rad' = [x \in DOMAIN cons_rad |-> Add(cons_rad[x], d)]
          /\ hook_calls' = hook_calls + 1
     ELSE UNCHANGED <<cons_rad, hook_calls>>
  /\ pc' = "done"
  /\ UNCHANGED <<transportVars, rootVars, cfgVars, scratchVars, prim_hydro_end_, cons_hydro,
                 row>>

Next ==
  \/ Start
  \/ MomentsOld
  \/ CalcFluidVelocity
  \/ CalcEnergyDensity
  \/ ModifyVelocity
  \/ CalcTemperature
  \/ CalcIntensity
  \/ EddingtonFix
  \/ MomentsNew
  \/ ApplyToFluid
  \/ NextRow
  \/ UserSource

Spec == Init /\ [][Next]_vars

\* ------------------------------------------------------------------------
\* FourthPolyRoot applied to a grid of inputs
\* ------------------------------------------------------------------------
\* inputs of the quartic solver: multiples of 1/RootGrid up to MaxCoef
MaxCoef == 2
RootGrid == 4
RootInputs == {Num((n * Scale) \div RootGrid) :
                 n \in (-MaxCoef * RootGrid)..(MaxCoef * RootGrid)}
RootPrior == R(-99)

IdleSource ==
  /\ coupled_to_matter = FALSE /\ affect_fluid = FALSE /\ edd_fix = FALSE
  /\ UserSourceTerm = FALSE
  /\ dt = Zero /\ arad = Zero /\ alpha = One
  /\ opacity = <<>> /\ prim_hydro_end_ = <<>> /\ eos_out = <<>>
  /\ cons_rad = <<>> /\ cons_hydro = <<>>
  /\ row = 0
  /\ moments_old_ = <<>> /\ moments_new_ = <<>> /\ u_tet_ = <<>>
  /\ ee_f_minus_ = <<>> /\ ee_f_plus_ = <<>>
  /\ tt_plus_ = <<>> /\ bad_cell_ = <<>> /\ solve_path_ = <<>>
  /\ edd_moments_ = <<>>
  /\ cons_rad_in = <<>> /\ cons_hydro_in = <<>>
  /\ hook_calls = 0

InitRoot ==
  /\ pc = "root_call"
  /\ coef4 \in RootInputs
  /\ tconst \in RootInputs
  /\ rootOut = [flag |-> FALSE, root |-> RootPrior]
  /\ IdleSource
  /\ IdleTransport

CallFourthPolyRoot ==
  /\ pc = "root_call"
  /\ rootOut' = FourthPolyRoot(coef4, tconst, RootPrior)
  /\ pc' = "root_done"
  /\ UNCHANGED <<transportVars, coef4, tconst, cfgVars, scratchVars, srcVars>>

NextRoot == CallFourthPolyRoot

SpecRoot == InitRoot /\ [][NextRoot]_vars

\* ------------------------------------------------------------------------
\* RadIntegrator::CalculateFluxes and RadIntegrator::FluxDivergence
\* ------------------------------------------------------------------------
NX1 == 2
NX == 2
MaxThreads == 2
NGHOST == 2

Threads == 0..(nthreads - 1)

ncells1 == block_size.nx1 + 2 * NGHOST
ncells2 ==
  IF block_size.nx2 > 1 THEN block_size.nx2 + 2 * NGHOST ELSE block_size.nx2
ncells3 ==
  IF block_size.nx3 > 1 THEN block_size.nx3 + 2 * NGHOST ELSE block_size.nx3

\* first and last active index of the block in each dimension
is == NGHOST
ie == is + block_size.nx1 - 1
js == IF block_size.nx2 > 1 THEN NGHOST ELSE 0
je == js + block_size.nx2 - 1
ks == IF block_size.nx3 > 1 THEN NGHOST ELSE 0
ke == ks + block_size.nx3 - 1

\* cells <<k, j, i>> of the block, ghost zones included
CellIdx == (0..(ncells3 - 1)) \X (0..(ncells2 - 1)) \X (0..(ncells1 - 1))
ActiveCells == (ks..ke) \X (js..je) \X (is..ie)

\* faces <<d, k, j, i>> of the three flux arrays
FaceIdx ==
  ({1} \X (0..(ncells3 - 1)) \X (0..(ncells2 - 1)) \X (0..ncells1))
  \cup ({2} \X (0..(ncells3 - 1)) \X (0..ncells2) \X (0..(ncells1 - 1)))
  \cup ({3} \X (0..ncells3) \X (0..(ncells2 - 1)) \X (0..(ncells1 - 1)))

\* cell c moved by n cells along dimension d
Shift(d, c, n) ==
  IF d = 1 THEN <<c[1], c[2], c[3] + n>>
  ELSE IF d = 2 THEN <<c[1], c[2] + n, c[3]>>
  ELSE <<c[1] + n, c[2], c[3]>>

\* index of cell c along dimension d
Along(d, c) == IF d = 1 THEN c[3] ELSE IF d = 2 THEN c[2] ELSE c[1]

\* face positions and cell centres of the coordinates, uniformly spaced
xf(n) == R(n)
xv(n) == Num(n * Scale + 500)

reduced_c == R(2)
mesh_dt == One

\* prad->mu(d-1, k, j, i, n) of the one angle carried
mu(d, c) ==
  IF mu_kind = "uniform" THEN (IF d = 2 THEN Num(-500) ELSE Num(500))
  ELSE IF (c[1] + c[2] + c[3]) % 2 = 0 THEN Num(500) ELSE Num(-250)

\* time increment of the substep
StepDt == IF step = 1 THEN Mul(Num(500), mesh_dt) ELSE mesh_dt

\* signal speed at the lower face of cell c along d: linear interpolation
\* between the centres of the two cells that share the face
FaceVelocity(d, c) ==
  LET n == Along(d, c)
      dxl == Sub(xf(n), xv(n - 1))
      dxr == Sub(xv(n), xf(n))
      factl == Div(dxr, Add(dxl, dxr))
      factr == Div(dxl, Add(dxl, dxr))
  IN Mul(reduced_c, Add(Mul(factl, mu(d, Shift(d, c, -1))),
                        Mul(factr, mu(d, c))))

\* piecewise-constant upwind flux through the lower face of cell c along d
FirstOrderFlux(q, d, c, v) ==
  IF Gt(v, Zero) THEN Mul(v, q[Shift(d, c, -1)]) ELSE Mul(v, q[c])

\* limited slope of q in cell c along d
MinMod(a, b) ==
  IF Gt(a, Zero) /\ Gt(b, Zero) THEN StdMin(a, b)
  ELSE IF Lt(a, Zero) /\ Lt(b, Zero) THEN StdMax(a, b)
  ELSE Zero

LimitedSlope(q, d, c) ==
  MinMod(Sub(q[c], q[Shift(d, c, -1)]), Sub(q[Shift(d, c, 1)], q[c]))

\* slope-limited upwind flux through the lower face of cell c along d
SecondOrderFlux(q, d, c, v) ==
  IF Gt(v, Zero)
  THEN Mul(v, Add(q[Shift(d, c, -1)],
                  Mul(Num(500), LimitedSlope(q, d, Shift(d, c, -1)))))
  ELSE Mul(v, Sub(q[c], Mul(Num(500), LimitedSlope(q, d, c))))

\* area of the lower face of cell c along d, and the volume of cell c
FaceArea(d, c) ==
  IF coord = "cartesian" THEN One
  ELSE IF d = 1 THEN R(c[3] + 1) ELSE One

CellVolume(c) == IF coord = "cartesian" THEN One ELSE R(2)

\* iterations lo..hi of an omp for with schedule(static) given to thread t
StaticChunk(lo, hi, t) ==
  LET n == hi - lo + 1
      q == n \div nthreads
      r == n % nthreads
      first == IF t < r THEN lo + t * (q + 1) ELSE lo + r * (q + 1) + (t - r) * q
      many == IF t < r THEN q + 1 ELSE q
  IN first..(first + many - 1)

MaxStep == 2

\* one piece of the parallel region of CalculateFluxes: the copy of ir, or
\* one omp for loop of a direction at one k
KRegions(part, lo, hi) ==
  [n \in 1..(hi - lo + 1) |-> [part |-> part, k |-> lo + n - 1]]

FluxRegions ==
  <<[part |-> "copy", k |-> 0]>>
  \o KRegions("x1", ks, ke)
  \o (IF block_size.nx2 > 1 THEN KRegions("x2", ks, ke) ELSE <<>>)
  \o (IF block_size.nx3 > 1 THEN KRegions("x3", ks, ke + 1) ELSE <<>>)

\* the implicit barrier that ends every omp for loop
Barrier(t) == tpos[t] <= 2 \/ \A s \in Threads : tpos[s] >= tpos[t]

AtRegion(t, part) ==
  /\ fpc = "flux"
  /\ tpos[t] <= Len(FluxRegions)
  /\ FluxRegions[tpos[t]].part = part
  /\ Barrier(t)

Face(d, c) == <<d, c[1], c[2], c[3]>>

\* geometry, velocity field, intensity field and the contents the flux
\* arrays were left with by the substep before
FluxConfigs ==
  { [coord |-> "cartesian", mu |-> "uniform", ir |-> "uniform", stale |-> "zero"],
    [coord |-> "cartesian", mu |-> "uniform", ir |-> "uniform", stale |-> "ramp"],
    [coord |-> "radial", mu |-> "uniform", ir |-> "uniform", stale |-> "zero"],
    [coord |-> "cartesian", mu |-> "varying", ir |-> "bumpy", stale |-> "ramp"],
    [coord |-> "radial", mu |-> "varying", ir |-> "bumpy", stale |-> "zero"] }

InitFlux ==
  /\ pc = "idle"
  /\ coef4 = Zero /\ tconst = Zero
  /\ rootOut = [flag |-> FALSE, root |-> Zero]
  /\ IdleSource
  /\ IdleAux
  /\ fpc = "start"
  /\ \E n2 \in {1, NX}, n3 \in {1, NX} :
       block_size = [nx1 |-> NX1, nx2 |-> n2, nx3 |-> n3]
  /\ step \in 1..MaxStep
  /\ nthreads \in 1..MaxThreads
  /\ \E cfg \in FluxConfigs :
       /\ coord = cfg.coord
       /\ mu_kind = cfg.mu
       /\ ir = [c \in CellIdx |->
                  IF cfg.ir = "uniform" THEN R(3)
                  ELSE R(((c[1] + c[2] + c[3]) * (c[1] + c[2] + c[3])) % 5)]
       /\ flux = [f \in FaceIdx |->
                    IF cfg.stale = "zero" THEN Zero ELSE R(f[3])]
  /\ temp_i1_ = [t \in Threads |-> <<>>]
  /\ tpos = [t \in Threads |-> 0]
  /\ ir_in = ir /\ ir_div = ir
  /\ flux_writes = [f \in FaceIdx |-> 0]
  /\ ir_writes = [c \in CellIdx |-> 0]
  /\ order_used = [x \in (1..3) \X (0..ncells3) \X (0..ncells2) |-> "none"]
  /\ div_terms = [c \in CellIdx |-> {}]

\* entry of CalculateFluxes up to the start of the parallel region
CallCalculateFluxes ==
  /\ fpc = "start"
  /\ fpc' = "flux"
  /\ ir_in' = ir
  /\ tpos' = [t \in Threads |-> 1]
  /\ UNCHANGED <<sourceVars, auxVars, block_size, step, nthreads, coord, mu_kind, ir,
                 flux, temp_i1_, ir_div, flux_writes, ir_writes, order_used,
                 div_terms>>

\* every thread copies the whole of ir into its own slice of temp_i1_
CopyIntensity(t) ==
  /\ AtRegion(t, "copy")
  /\ temp_i1_' = [temp_i1_ EXCEPT ![t] = ir]
  /\ tpos' = [tpos EXCEPT ![t] = @ + 1]
  /\ UNCHANGED <<sourceVars, auxVars, fpc, block_size, step, nthreads, coord, mu_kind,
                 ir, flux, ir_in, ir_div, flux_writes, ir_writes, order_used,
                 div_terms>>

\* FluxOrder whose k-direction always takes the second-order routine
FluxOrder_X3AlwaysSecond(d) ==
  IF d = 3 THEN "second" ELSE IF step = 1 THEN "first" ELSE "second"

\* the flux routine chosen for dimension d
FluxOrder(d) == IF step = 1 THEN "first" ELSE "second"

\* flux through the lower face of cell c along d, from thread t's copy
RowFlux(t, d, c) ==
  IF FluxOrder(d) = "first"
  THEN FirstOrderFlux(temp_i1_[t], d, c, FaceVelocity(d, c))
  ELSE SecondOrderFlux(temp_i1_[t], d, c, FaceVelocity(d, c))

\* StoreFluxes that also writes each flux back into the intensity array
StoreFluxes_AlsoIntoIntensity(t, d, rows, lo, hi) ==
  /\ flux' = [f \in FaceIdx |->
                IF f[1] = d /\ <<f[2], f[3]>> \in rows /\ f[4] \in lo..hi
                THEN RowFlux(t, d, <<f[2], f[3], f[4]>>)
                ELSE flux[f]]
  /\ ir' = [c \in CellIdx |->
                IF <<c[1], c[2]>> \in rows /\ c[3] \in lo..hi
                THEN RowFlux(t, d, c)
                ELSE ir[c]]
  /\ flux_writes' = [f \in FaceIdx |->
                IF f[1] = d /\ <<f[2], f[3]>> \in rows /\ f[4] \in lo..hi
                THEN flux_writes[f] + 1
                ELSE flux_writes[f]]
  /\ order_used' = [x \in DOMAIN order_used |->
                IF x[1] = d /\ <<x[2], x[3]>> \in rows THEN FluxOrder(d)
                ELSE order_used[x]]
  /\ tpos' = [tpos EXCEPT ![t] = @ + 1]
  /\ UNCHANGED <<sourceVars, auxVars, fpc, block_size, step, nthreads, coord, mu_kind,
                 temp_i1_, ir_in, ir_div, ir_writes, div_terms>>

\* thread t computes and stores the fluxes of the rows <<k, j>> it was
\* given, at the faces i = lo..hi of each row
StoreFluxes(t, d, rows, lo, hi) ==
  /\ flux' = [f \in FaceIdx |->
                IF f[1] = d /\ <<f[2], f[3]>> \in rows /\ f[4] \in lo..hi
                THEN RowFlux(t, d, <<f[2], f[3], f[4]>>)
                ELSE flux[f]]
  /\ flux_writes' = [f \in FaceIdx |->
                IF f[1] = d /\ <<f[2], f[3]>> \in rows /\ f[4] \in lo..hi
                THEN flux_writes[f] + 1
                ELSE flux_writes[f]]
  /\ order_used' = [x \in DOMAIN order_used |->
                IF x[1] = d /\ <<x[2], x[3]>> \in rows THEN FluxOrder(d)
                ELSE order_used[x]]
  /\ tpos' = [tpos EXCEPT ![t] = @ + 1]
  /\ UNCHANGED <<sourceVars, auxVars, fpc, block_size, step, nthreads, coord, mu_kind,
                 ir, temp_i1_, ir_in, ir_div, ir_writes, div_terms>>

\* i-direction: omp for over j = js..je, faces i = is..ie+1
FluxX1(t) ==
  /\ AtRegion(t, "x1")
  /\ StoreFluxes(t, 1, {FluxRegions[tpos[t]].k} \X StaticChunk(js, je, t),
                 is, ie + 1)

\* j-direction: omp for over j = js..je+1, faces i = is..ie
FluxX2(t) ==
  /\ AtRegion(t, "x2")
  /\ StoreFluxes(t, 2, {FluxRegions[tpos[t]].k} \X StaticChunk(js, je + 1, t),
                 is, ie)

\* k-direction: omp for over j = js..je, faces i = is..ie
FluxX3(t) ==
  /\ AtRegion(t, "x3")
  /\ StoreFluxes(t, 3, {FluxRegions[tpos[t]].k} \X StaticChunk(js, je, t),
                 is, ie)

\* end of the parallel region: CalculateFluxes returns
EndCalculateFluxes ==
  /\ fpc = "flux"
  /\ \A t \in Threads : tpos[t] > Len(FluxRegions)
  /\ fpc' = "flux_done"
  /\ UNCHANGED <<sourceVars, auxVars, block_size, step, nthreads, coord, mu_kind, ir,
                 flux, temp_i1_, tpos, ir_in, ir_div, flux_writes, ir_writes,
                 order_used, div_terms>>

\* entry of FluxDivergence up to the start of the parallel region
CallFluxDivergence ==
  /\ fpc = "flux_done"
  /\ fpc' = "div"
  /\ ir_div' = ir
  /\ tpos' = [t \in Threads |-> 1]
  /\ UNCHANGED <<sourceVars, auxVars, block_size, step, nthreads, coord, mu_kind, ir,
                 flux, temp_i1_, ir_in, flux_writes, ir_writes, order_used,
                 div_terms>>

\* area-weighted flux of the two faces of cell c along d
UpperTerm(d, c) ==
  Mul(FaceArea(d, Shift(d, c, 1)), flux[Face(d, Shift(d, c, 1))])

\* LowerTerm with the sign of the lower face's term flipped
LowerTerm_SignFlipped(d, c) == Neg(Mul(FaceArea(d, c), flux[Face(d, c)]))

LowerTerm(d, c) == Mul(FaceArea(d, c), flux[Face(d, c)])

\* the sum in the update of cell c, over the dimensions 1..nd, added in
\* the order of the expression
RECURSIVE DivergenceSum(_, _)
DivergenceSum(nd, c) ==
  IF nd = 1 THEN Sub(UpperTerm(1, c), LowerTerm(1, c))
  ELSE Sub(Add(DivergenceSum(nd - 1, c), UpperTerm(nd, c)), LowerTerm(nd, c))

\* ir(k,j,i,n) -= dt*(...)/vol(i), the old value read as old
UpdatedIntensity(nd, c, old) ==
  Sub(old, Div(Mul(StepDt, DivergenceSum(nd, c)), CellVolume(c)))

\* thread t updates the cells it was given; the cells of lost read the
\* value ir had when the region began
ApplyDivergence(t, nd, cells, lost) ==
  /\ ir' = [c \in CellIdx |->
              IF c \in cells
              THEN UpdatedIntensity(nd, c, IF c \in lost THEN ir_div[c]
                                           ELSE ir[c])
              ELSE ir[c]]
  /\ ir_writes' = [c \in CellIdx |->
              IF c \in cells THEN ir_writes[c] + 1 ELSE ir_writes[c]]
  /\ div_terms' = [c \in CellIdx |->
              IF c \in cells THEN 1..nd ELSE div_terms[c]]
  /\ tpos' = [tpos EXCEPT ![t] = @ + 1]
  /\ UNCHANGED <<sourceVars, auxVars, fpc, block_size, step, nthreads, coord, mu_kind,
                 flux, temp_i1_, ir_in, ir_div, flux_writes, order_used>>

\* nx3 > 1: omp for over k = ks..ke
Divergence3D(t) ==
  /\ fpc = "div" /\ tpos[t] = 1
  /\ block_size.nx3 > 1
  /\ ApplyDivergence(t, 3, StaticChunk(ks, ke, t) \X (js..je) \X (is..ie), {})

\* nx3 = 1, nx2 > 1: k = ks, omp for over j = js..je
Divergence2D(t) ==
  /\ fpc = "div" /\ tpos[t] = 1
  /\ ~(block_size.nx3 > 1) /\ block_size.nx2 > 1
  /\ ApplyDivergence(t, 2, {ks} \X StaticChunk(js, je, t) \X (is..ie), {})

\* nx3 = 1, nx2 = 1: the omp for stands before the call of CellVolume, so
\* the loop over i is shared by no one and every thread runs all of it;
\* a thread may read a cell before or after another thread's store
Divergence1D(t) ==
  /\ fpc = "div" /\ tpos[t] = 1
  /\ ~(block_size.nx3 > 1) /\ ~(block_size.nx2 > 1)
  /\ \E lost \in SUBSET ({ks} \X {js} \X (is..ie)) :
       ApplyDivergence(t, 1, {ks} \X {js} \X (is..ie), lost)

\* end of the parallel region: FluxDivergence returns
EndFluxDivergence ==
  /\ fpc = "div"
  /\ \A t \in Threads : tpos[t] > 1
  /\ fpc' = "done"
  /\ UNCHANGED <<sourceVars, auxVars, block_size, step, nthreads, coord, mu_kind, ir,
                 flux, temp_i1_, tpos, ir_in, ir_div, flux_writes, ir_writes,
                 order_used, div_terms>>

NextFlux ==
  \/ CallCalculateFluxes
  \/ \E t \in Threads : CopyIntensity(t)
  \/ \E t \in Threads : FluxX1(t)
  \/ \E t \in Threads : FluxX2(t)
  \/ \E t \in Threads : FluxX3(t)
  \/ EndCalculateFluxes
  \/ CallFluxDivergence
  \/ \E t \in Threads : Divergence3D(t)
  \/ \E t \in Threads : Divergence2D(t)
  \/ \E t \in Threads : Divergence1D(t)
  \/ EndFluxDivergence

SpecFlux == InitFlux /\ [][NextFlux]_vars

\* ------------------------------------------------------------------------
\* RadBoundaryVariable::AngleInd
\* ------------------------------------------------------------------------
\* the angular grid with its ghost zones
AngleGrid ==
  (0..(nzeta + 2 * NGHOST_RAD - 1)) \X (0..(npsi + 2 * NGHOST_RAD - 1))

InitAngle ==
  /\ pc = "idle"
  /\ coef4 = Zero /\ tconst = Zero
  /\ rootOut = [flag |-> FALSE, root |-> Zero]
  /\ IdleSource
  /\ IdleFlux
  /\ IdleSetup
  /\ ang_args \in AngleGrid \X AngleGrid
  /\ ang_ret = <<-1, -1>>

CallAngleInd(n) ==
  /\ ang_ret[n] = -1
  /\ ang_ret' = [ang_ret EXCEPT ![n] = AngleInd(ang_args[n][1], ang_args[n][2])]
  /\ UNCHANGED <<sourceVars, fluxVars, setupVars, ang_args>>

NextAngle == \E n \in {1, 2} : CallAngleInd(n)

SpecAngle == InitAngle /\ [][NextAngle]_vars

\* ------------------------------------------------------------------------
\* Mesh::InitUserMeshData and MeshBlock::ProblemGenerator
\* ------------------------------------------------------------------------
MaxNang == 7
MaxFreq == 2

\* G0_iang.NewAthenaArray(6)
G0_iang_size == 6
\* the memory G0_iang occupies and the memory behind it that the largest
\* angle count reaches
G0_iang_range == 0..(G0_iang_size - 1)
BeyondRange == G0_iang_size..(IF MaxNang > G0_iang_size THEN MaxNang - 1
                              ELSE G0_iang_size - 1)

\* radiation/G0 and the six radiation/G0_<face> parameters: all faces at G0,
\* or one value per face
G0 == R(2)
G0Tables ==
  {[f \in G0_iang_range |-> G0], [f \in G0_iang_range |-> R(f + 1)]}
\* what the memory behind the array may hold
BeyondValues == {Zero, R(-9)}
cr_rate == R(5)

IrIdx == Cells \X (0..(nfreq * nang - 1))

InitSetup ==
  /\ pc = "idle"
  /\ coef4 = Zero /\ tconst = Zero
  /\ rootOut = [flag |-> FALSE, root |-> Zero]
  /\ IdleSource
  /\ IdleFlux
  /\ IdleAngle
  /\ spc = "mesh"
  /\ RADIATION_ENABLED \in BOOLEAN
  /\ INCLUDE_CHEMISTRY \in BOOLEAN
  /\ nang \in 1..MaxNang
  /\ nfreq \in 1..MaxFreq
  /\ index_cr_ \in 0..(nfreq - 1)
  /\ INCLUDE_CHEMISTRY \/ index_cr_ = 0
  /\ G0_iang \in [BeyondRange -> BeyondValues]
  /\ prad_ir = [x \in IrIdx |-> Zero]
  /\ icell = 0 /\ ifreq = 0 /\ iang = 0
  /\ g0_reads = {}

\* the six entries are stored in front of whatever the memory holds
InitUserMeshData ==
  /\ spc = "mesh"
  /\ \E tab \in G0Tables :
       G0_iang' = [f \in G0_iang_range \cup BeyondRange |->
                     IF f \in G0_iang_range THEN tab[f] ELSE G0_iang[f]]
  /\ spc' = "pgen"
  /\ UNCHANGED <<sourceVars, fluxVars, angleVars, RADIATION_ENABLED,
                 INCLUDE_CHEMISTRY, nang, nfreq, index_cr_, prad_ir, icell,
                 ifreq, iang, g0_reads>>

\* the loops over the hydro variables, then the test of RADIATION_ENABLED
StartProblemGenerator ==
  /\ spc = "pgen"
  /\ IF RADIATION_ENABLED
     THEN spc' = "rad" /\ icell' = 1
     ELSE spc' = "species" /\ icell' = icell
  /\ UNCHANGED <<sourceVars, fluxVars, angleVars, RADIATION_ENABLED,
                 INCLUDE_CHEMISTRY, nang, nfreq, index_cr_, G0_iang, prad_ir,
                 ifreq, iang, g0_reads>>

\* the loop over the cells moves on, or ends
NextCell ==
  /\ ifreq' = 0 /\ iang' = 0
  /\ IF icell < NCells
     THEN icell' = icell + 1 /\ spc' = "rad"
     ELSE icell' = icell /\ spc' = "output"

\* prad->ir(k, j, i, ifreq * prad->nang + iang) = G0_iang(iang)
InitIntensity ==
  /\ spc = "rad"
  /\ prad_ir' = [prad_ir EXCEPT ![<<icell, ifreq * nang + iang>>] = G0_iang[iang]]
  /\ g0_reads' = g0_reads \cup {iang}
  /\ IF iang + 1 < nang
     THEN iang' = iang + 1 /\ UNCHANGED <<ifreq, icell, spc>>
     ELSE IF ifreq + 1 < nfreq
          THEN ifreq' = ifreq + 1 /\ iang' = 0 /\ UNCHANGED <<icell, spc>>
          ELSE IF INCLUDE_CHEMISTRY
               THEN spc' = "cr" /\ UNCHANGED <<icell, ifreq, iang>>
               ELSE NextCell
  /\ UNCHANGED <<sourceVars, fluxVars, angleVars, RADIATION_ENABLED,
                 INCLUDE_CHEMISTRY, nang, nfreq, index_cr_, G0_iang>>

\* prad->ir(k, j, i, index_cr_ * prad->nang + iang) = cr_rate
InitCosmicRay ==
  /\ spc = "cr"
  /\ prad_ir' = [x \in IrIdx |->
                   IF x[1] = icell /\ x[2] \in (index_cr_ * nang)..(index_cr_ * nang + nang - 1)
                   THEN cr_rate ELSE prad_ir[x]]
  /\ NextCell
  /\ UNCHANGED <<sourceVars, fluxVars, angleVars, RADIATION_ENABLED,
                 INCLUDE_CHEMISTRY, nang, nfreq, index_cr_, G0_iang, g0_reads>>

\* prad->pradintegrator->CopyToOutput(): ir is read, not written
CopyToOutput ==
  /\ spc = "output"
  /\ spc' = "species"
  /\ UNCHANGED <<sourceVars, fluxVars, angleVars, RADIATION_ENABLED,
                 INCLUDE_CHEMISTRY, nang, nfreq, index_cr_, G0_iang, prad_ir,
                 icell, ifreq, iang, g0_reads>>

\* the loops over the chemical species, then return
EndProblemGenerator ==
  /\ spc = "species"
  /\ spc' = "done"
  /\ UNCHANGED <<sourceVars, fluxVars, angleVars, RADIATION_ENABLED,
                 INCLUDE_CHEMISTRY, nang, nfreq, index_cr_, G0_iang, prad_ir,
                 icell, ifreq, iang, g0_reads>>

NextSetup ==
  \/ InitUserMeshData
  \/ StartProblemGenerator
  \/ InitIntensity
  \/ InitCosmicRay
  \/ CopyToOutput
  \/ EndProblemGenerator

SpecSetup == InitSetup /\ [][NextSetup]_vars

\* ------------------------------------------------------------------------
\* Properties of AddSourceTerms
\* ------------------------------------------------------------------------
\* C1: with coupled_to_matter false, cons_hydro stays as passed in, and
\* cons_rad stays as passed in except for what a registered user source term
\* does to it at the end.
C1_UncoupledLeavesArrays ==
  ~coupled_to_matter
    => /\ cons_hydro = cons_hydro_in
       /\ hook_calls = 0 => cons_rad = cons_rad_in

C1_Witness ==
  /\ ~coupled_to_matter /\ pc = "done"
  /\ hook_calls = 1 /\ cons_rad # cons_rad_in

\* energy (n = 0) or momentum (n = 1..3) component of the fluid
HydroOf(h, n) ==
  IF n = 0 THEN h.IEN ELSE IF n = 1 THEN h.IM1 ELSE IF n = 2 THEN h.IM2
  ELSE h.IM3

\* C2: with coupling and fluid feedback enabled, after the coupling of a row
\* the fluid energy plus the zeroth radiation moment, and each fluid momentum
\* component plus the matching first moment, are what they were before it,
\* in every cell of the row.
C2_FluidPlusMomentConserved ==
  (coupled_to_matter /\ affect_fluid /\ pc = "row_next")
    => \A i \in Cells : \A n \in Idx4 :
         Add(HydroOf(cons_hydro[<<row, i>>], n),
             RadMoment(cons_rad, row, i, n))
           = Add(HydroOf(cons_hydro_in[<<row, i>>], n),
                 RadMoment(cons_rad_in, row, i, n))

C2_Witness ==
  /\ coupled_to_matter /\ affect_fluid /\ pc = "row_next"
  /\ \E i \in Cells :
       /\ cons_hydro[<<row, i>>].IEN # cons_hydro_in[<<row, i>>].IEN
       /\ cons_hydro[<<row, i>>].IM1 # cons_hydro_in[<<row, i>>].IM1

\* C3: the density of the fluid is never written, and unless coupling and
\* fluid feedback are both enabled cons_hydro is unchanged in every cell,
\* also when the intensities have been updated.
C3_OnlyEnergyMomentumWithFeedback ==
  /\ \A x \in DOMAIN cons_hydro : cons_hydro[x].IDN = cons_hydro_in[x].IDN
  /\ ~(coupled_to_matter /\ affect_fluid) => cons_hydro = cons_hydro_in

C3_Witness ==
  /\ coupled_to_matter /\ ~affect_fluid /\ pc = "user"
  /\ \E x \in DOMAIN cons_rad : x[1] = NRows /\ cons_rad[x] # cons_rad_in[x]

\* the temperature pressure/density of cell i of the current row
UnmodifiedTemperature(i) ==
  Div(prim_hydro_end_[<<row, i>>].IPR, prim_hydro_end_[<<row, i>>].IDN)

\* C4: after the temperature sub-step every cell is either flagged invalid
\* with the unmodified temperature pressure/density, or not flagged with a
\* real, non-negative new temperature, whichever solve path it took.
C4_FlaggedOrRealNonNegative ==
  pc = "intensity"
    => \A i \in Cells :
         IF bad_cell_[i] THEN tt_plus_[i] = UnmodifiedTemperature(i)
         ELSE IsNum(tt_plus_[i]) /\ tt_plus_[i].v >= 0

\* cell i of the current row has the conserved intensities and the fluid
\* conserved variables it had on entry
CellHeld(i) ==
  /\ \A a \in AngleIdx : cons_rad[<<row, i, a>>] = cons_rad_in[<<row, i, a>>]
  /\ cons_hydro[<<row, i>>] = cons_hydro_in[<<row, i>>]

\* C5: after the coupling of a row, a cell flagged invalid by the temperature
\* solve has every conserved intensity and its fluid energy and momentum
\* unchanged.
C5_InvalidCellHoldsPriorState ==
  pc = "row_next" => \A i \in Cells : bad_cell_[i] => CellHeld(i)

\* cell i of the current row has zero absorption and scattering coefficients
Transparent(i) ==
  /\ Mul(prim_hydro_end_[<<row, i>>].IDN, opacity[<<row, i>>].OPAA) = Zero
  /\ Mul(prim_hydro_end_[<<row, i>>].IDN, opacity[<<row, i>>].OPAS) = Zero

\* C8 as stated: after the coupling of a row, a cell with zero absorption
\* and scattering coefficients has every intensity unchanged, whatever the
\* values of the intensities, and its fluid energy and momentum unchanged.
C8_TransparentCellUnchanged ==
  pc = "row_next" => \A i \in Cells : Transparent(i) => CellHeld(i)

\* no conserved intensity of cell i of the current row was positive on entry
NonPositiveOnEntry(i) ==
  \A a \in AngleIdx : Le(cons_rad_in[<<row, i, a>>], Zero)

\* C8 as amended: with the closure correction disabled, a cell with zero
\* absorption and scattering coefficients whose conserved intensities are
\* all non-positive on entry has every intensity and its fluid energy and
\* momentum unchanged after the coupling of its row.
C8_TransparentNonPositiveUnchanged ==
  (pc = "row_next" /\ ~edd_fix)
    => \A i \in Cells :
         (Transparent(i) /\ NonPositiveOnEntry(i)) => CellHeld(i)

C8_Witness ==
  /\ pc = "row_next" /\ ~edd_fix /\ affect_fluid
  /\ \E i \in Cells : Transparent(i) /\ NonPositiveOnEntry(i)
  /\ \E j \in Cells : ~CellHeld(j)

\* C9: the user source term runs exactly once per call when registered and
\* never otherwise, also with coupling disabled; it runs after the coupling
\* of every row is complete and leaves cons_hydro as the coupling left it.
C9_HookOnceAfterCoupling ==
  /\ [](hook_calls = IF pc = "done" /\ UserSourceTerm THEN 1 ELSE 0)
  /\ [][hook_calls' # hook_calls
          => /\ pc = "user" /\ pc' = "done"
             /\ coupled_to_matter => row = NRows
             /\ cons_hydro' = cons_hydro]_vars

C9_Witness ==
  /\ pc = "done" /\ hook_calls = 1 /\ ~coupled_to_matter

\* two values agree to the tolerance of the arithmetic
EddTol == Scale \div 10
Near(x, y) == IsNum(x) /\ IsNum(y) /\ AbsI(x.v - y.v) <= EddTol

\* the closure correction has just been applied to the cells of the row
Corrected == pc = "moments_new" /\ edd_fix

\* C16: the zeroth moment of the ring of a cell, taken in the fluid frame
\* with the velocity the correction used, is the same after the correction
\* as the one the correction computed before it.
C16_ZerothMomentConserved ==
  Corrected =>
    \A i \in Cells :
      Near(EddMoments(cons_rad, u_tet_[i], row, i)[0], edd_moments_[i][0])

\* C17: applying the correction again to the corrected intensities of a
\* cell, with the same velocity, gives the intensities it already has.
C17_CorrectionIdempotent ==
  Corrected =>
    \A i \in Cells : \A m \in ps..pe :
      Near(EddCorrect(cons_rad, u_tet_[i], row, i)[m],
           Rad(cons_rad, row, i, zs, m))

\* the projection of the ring of cell i, before the clamp at zero, keeps
\* every conserved intensity below zero
NoClampInRing(i) ==
  \A m \in ps..pe : Rad(cons_rad, row, i, zs, m).v < -EddTol

\* with no intensity of the ring at the clamp, the moment is conserved and
\* the correction is a fixed point
EddHoldsWithoutClamp ==
  Corrected =>
    \A i \in Cells :
      NoClampInRing(i) =>
        /\ Near(EddMoments(cons_rad, u_tet_[i], row, i)[0], edd_moments_[i][0])
        /\ \A m \in ps..pe :
             Near(EddCorrect(cons_rad, u_tet_[i], row, i)[m],
                  Rad(cons_rad, row, i, zs, m))

\* the conserved intensities the coupling step stored in the current row:
\* all angles of a cell not marked bad, and the ring l = zs of every cell
\* when the closure correction is on
StoredByCoupling(x) ==
  /\ x[1] = row
  /\ ~bad_cell_[x[2]] \/ (edd_fix /\ AngleOf(x[3])[1] = zs)

AfterCoupling == pc \in {"moments_new", "apply_fluid", "row_next"}

\* C20 as stated: every conserved intensity the update or the correction
\* stored is greater than or equal to 0.
C20_StoredIntensityNonNegative ==
  AfterCoupling =>
    \A x \in DOMAIN cons_rad : StoredByCoupling(x) => Ge(cons_rad[x], Zero)

\* C20 amended: every conserved intensity the update or the correction
\* stored is less than or equal to 0, the sign the code keeps a
\* non-negative physical intensity with, or is not a number.
C20_StoredIntensityNonPositive ==
  AfterCoupling =>
    \A x \in DOMAIN cons_rad :
      StoredByCoupling(x) => (Le(cons_rad[x], Zero) \/ cons_rad[x].k = "nan")

C20_Witness ==
  /\ pc = "row_next" /\ edd_fix
  /\ \E x \in DOMAIN cons_rad :
       /\ StoredByCoupling(x)
       /\ cons_rad[x] = Zero /\ Gt(cons_rad_in[x], Zero)
  /\ \E x \in DOMAIN cons_rad :
       StoredByCoupling(x) /\ Lt(cons_rad[x], Zero)
       /\ cons_rad[x] # cons_rad_in[x]

\* primitive state, opacities and gas energy density of cell i of the row
PrimOf(i) == prim_hydro_end_[<<row, i>>]
OpacityOf(i) == opacity[<<row, i>>]
GasEnergy(i) == Add(PrimOf(i).IDN, Div(PrimOf(i).IPR, Sub(gamma_adi, One)))

\* no intensity of the row has been written yet
BeforeIntensityWrite ==
  pc \in {"moments_old", "u_tet", "ee_f", "vel_limit", "temperature",
          "intensity"}

\* C21: from the start of a row until its intensity update, the intensities
\* of the row are the ones the step was entered with, and the energy density
\* the test of radiation domination uses is the one of these intensities;
\* the moments of the velocity update are taken from the same values.
C21_SameSnapshot ==
  BeforeIntensityWrite =>
    /\ \A x \in DOMAIN cons_rad : x[1] = row => cons_rad[x] = cons_rad_in[x]
    /\ pc = "vel_limit" =>
         \A i \in Cells :
           ee_f_minus_[i] = EnergyDensity(cons_rad_in, u_tet_[i], row, i)

C21_Witness ==
  /\ pc = "temperature"
  /\ \E i \in Cells :
       /\ Gt(ee_f_minus_[i], GasEnergy(i))
       /\ u_tet_[i] # FluidVelocity(PrimOf(i))
  /\ \A x \in DOMAIN cons_rad : x[1] = row => cons_rad[x] = cons_rad_in[x]

\* radiation energy density of cell i in the frame of the fluid velocity
\* derived from the primitive velocities
EnteringEnergy(i) ==
  EnergyDensity(cons_rad_in, FluidVelocity(PrimOf(i)), row, i)

\* C22: a cell whose radiation energy density does not exceed its gas energy
\* density has the four-velocity derived from the primitive velocities when
\* the temperature sub-step and the intensity sub-step read it.
C22_LimitedOnlyWhenDominated ==
  pc \in {"temperature", "intensity"} =>
    \A i \in Cells :
      ~Gt(EnteringEnergy(i), GasEnergy(i)) =>
        u_tet_[i] = FluidVelocity(PrimOf(i))

C22_Witness ==
  /\ pc = "intensity"
  /\ \E i \in Cells :
       /\ ~Gt(EnteringEnergy(i), GasEnergy(i))
       /\ Gt(OpacityOf(i).OPAA, Zero)
       /\ Lt(Rad(cons_rad_in, row, i, zs, ps), Rad(cons_rad_in, row, i, zs, pe))
       /\ u_tet_[i] = FluidVelocity(PrimOf(i))
  /\ \E i \in Cells :
       /\ Gt(EnteringEnergy(i), GasEnergy(i))
       /\ u_tet_[i] # FluidVelocity(PrimOf(i))

\* the quantities of the velocity-limiting sub-step of cell i, from the
\* intensities and the velocity the sub-step starts with
MomentsOf(i) ==
  [x \in {y \in Idx4 \X Idx4 : y[1] <= y[2]} |->
     RRTet(cons_rad_in, row, i, x[1], x[2])]
RawVelocity(i) ==
  [n \in 1..3 |-> Div(MomentsOf(i)[<<0, n>>], MomentsOf(i)[<<0, 0>>])]
RawSpeedSq(i) ==
  Add(Add(SQR(RawVelocity(i)[1]), SQR(RawVelocity(i)[2])),
      SQR(RawVelocity(i)[3]))
RadFrame(i) == RadiationFrameVelocity(MomentsOf(i))
UsedVelocity(i) == [n \in 1..3 |-> Div(RadFrame(i)[n], RadFrame(i)[0])]
UsedSpeedSq(i) ==
  Add(Add(SQR(UsedVelocity(i)[1]), SQR(UsedVelocity(i)[2])),
      SQR(UsedVelocity(i)[3]))
GasMomentum(i, n) ==
  LET u == FluidVelocity(PrimOf(i))
  IN Mul(Mul(Add(GasEnergy(i), PrimOf(i).IPR), u[0]), u[n])
RadFrameMomentum(i, n) ==
  Mul(Mul(Add(GasEnergy(i), PrimOf(i).IPR), RadFrame(i)[0]), RadFrame(i)[n])
RawFraction(i, n) ==
  Div(MomentumChange(FluidVelocity(PrimOf(i)), EnteringEnergy(i), PrimOf(i),
                     OpacityOf(i), MomentsOf(i), n),
      Sub(RadFrameMomentum(i, n), GasMomentum(i, n)))
Fraction(i, n) ==
  MomentumFraction(FluidVelocity(PrimOf(i)), EnteringEnergy(i), PrimOf(i),
                   OpacityOf(i), MomentsOf(i), RadFrame(i), n)

Dominated(i) == Gt(EnteringEnergy(i), GasEnergy(i))

\* x lies between a and b, to one unit of the arithmetic
Between(x, a, b) ==
  /\ IsNum(x) /\ IsNum(a) /\ IsNum(b)
  /\ (IF a.v < b.v THEN a.v ELSE b.v) - 1 <= x.v
  /\ x.v <= (IF a.v < b.v THEN b.v ELSE a.v) + 1

\* the test of line 119, on the energy density the sub-step was given
DominatedAtTest(i) == Gt(ee_f_minus_[i], GasEnergy(i))

\* one component: new, old and radiation-frame velocity, gas and
\* radiation-frame momentum, fraction
ComponentClipped(unew, uold, urad, mgas, mgas_rad, frac) ==
  /\ Eq(mgas_rad, mgas) => frac = Zero
  /\ Ge(frac, Zero) /\ Le(frac, One)
  /\ Between(unew, uold, urad)

CellClipped(i, u, urad, rr, wgas) ==
  \A n \in 1..3 :
    ComponentClipped(u_tet_[i][n], u[n], urad[n],
                     Mul(Mul(wgas, u[0]), u[n]),
                     Mul(Mul(wgas, urad[0]), urad[n]),
                     MomentumFraction(u, ee_f_minus_[i], PrimOf(i),
                                      OpacityOf(i), rr, urad, n))

CellClippedFrom(i, u, rr) ==
  CellClipped(i, u, RadiationFrameVelocity(rr), rr,
              Add(GasEnergy(i), PrimOf(i).IPR))

SpeedTol == Scale \div 100
NearSpeed(x, y) == IsNum(x) /\ IsNum(y) /\ AbsI(x.v - y.v) <= SpeedTol

SpeedSq(v) == Add(Add(SQR(v[1]), SQR(v[2])), SQR(v[3]))

\* raw is the velocity from the moments, raw_sq its squared magnitude, used
\* the velocity the sub-step works with, used_sq its squared magnitude
CapHolds(raw, raw_sq, used, used_sq) ==
  /\ used_sq.v <= v_sq_max.v + SpeedTol
  /\ IF Gt(raw_sq, v_sq_max)
     THEN /\ NearSpeed(used_sq, v_sq_max)
          /\ \A n \in 1..3 : \A k \in 1..3 :
               NearSpeed(Mul(used[n], raw[k]), Mul(used[k], raw[n]))
          /\ \A n \in 1..3 : used[n].v * raw[n].v >= 0
     ELSE \A n \in 1..3 : NearSpeed(used[n], raw[n])

CapHoldsOf(raw, used) == CapHolds(raw, SpeedSq(raw), used, SpeedSq(used))

CapHoldsFrom(rr, urad) ==
  CapHoldsOf(Eager([n \in 1..3 |-> Div(rr[<<0, n>>], rr[<<0, 0>>])]),
             Eager([n \in 1..3 |-> Div(urad[n], urad[0])]))

CapHoldsIn(rr) == CapHoldsFrom(rr, RadiationFrameVelocity(rr))

\* C24: in a radiation-dominated cell the radiation-frame velocity used has
\* squared magnitude at most v_sq_max; a faster velocity from the moments is
\* rescaled, all components by one factor, to squared magnitude v_sq_max,
\* and a slower one is used as it is.
C24_RadiationVelocityCapped ==
  pc = "temperature" =>
    \A i \in Cells : DominatedAtTest(i) => CapHoldsIn(Eager(MomentsOf(i)))

C24_Witness ==
  /\ pc = "temperature"
  /\ \E i \in Cells :
       /\ Dominated(i) /\ Gt(RawSpeedSq(i), v_sq_max)
       /\ NearSpeed(UsedSpeedSq(i), v_sq_max)
  /\ \E i \in Cells :
       /\ Dominated(i) /\ ~Gt(RawSpeedSq(i), v_sq_max)
       /\ Gt(RawSpeedSq(i), Zero)

\* energy density of cell i that energy conservation between the old and
\* the new temperature gives, before the clamp
ConservedEnergy(i) ==
  Add(ee_f_minus_[i],
      Mul(Div(PrimOf(i).IDN, Sub(gamma_adi, One)),
          Sub(Div(PrimOf(i).IPR, PrimOf(i).IDN), tt_plus_[i])))

\* the temperature sub-step of the row is over
AfterTemperature ==
  pc \in {"intensity", "edd", "moments_new", "apply_fluid", "row_next"}

\* C25: after the temperature sub-step the new radiation energy density of
\* every cell is non-negative, and in a cell not flagged invalid it is
\* max(0, old energy density + rho/(gamma-1) * (old - new temperature)).
C25_EnergyDensityClamped ==
  AfterTemperature =>
    \A i \in Cells :
      /\ Ge(ee_f_plus_[i], Zero)
      /\ ~bad_cell_[i] => ee_f_plus_[i] = StdMax(ConservedEnergy(i), Zero)

C25_Witness ==
  /\ pc = "intensity"
  /\ \E i \in Cells :
       ~bad_cell_[i] /\ Lt(ConservedEnergy(i), Zero) /\ ee_f_plus_[i] = Zero
  /\ \E i \in Cells :
       /\ ~bad_cell_[i] /\ Gt(ConservedEnergy(i), Zero)
       /\ tt_plus_[i] # Div(PrimOf(i).IPR, PrimOf(i).IDN)

\* coefficients of the temperature polynomial of cell i
CoeffsOf(i) ==
  TemperatureCoeffs(PrimOf(i), OpacityOf(i),
    TemperatureSums(cons_rad_in, u_tet_[i], PrimOf(i), OpacityOf(i), row, i))
Absorbing(i) == Gt(Mul(PrimOf(i).IDN, OpacityOf(i).OPAA), Zero)
NonDegenerate(x) == Gt(StdAbs(x), TINY_NUMBER)

C26_WitnessQuartic ==
  /\ pc = "intensity"
  /\ \E i \in Cells : solve_path_[i] = "quartic" /\ ~bad_cell_[i]
  /\ \E i \in Cells : solve_path_[i] = "none"

\* total coefficient and frame-projection term of cell i and angle a
TotalOpacity(i) ==
  Add(Mul(PrimOf(i).IDN, OpacityOf(i).OPAA),
      Mul(PrimOf(i).IDN, OpacityOf(i).OPAS))

\* C27: for every cell and angle the divisor of the intensity update is the
\* implicit factor the temperature sub-step of the cell forms its
\* coefficients with.
C27_SameImplicitFactor ==
  pc = "edd" =>
    \A i \in Cells : \A a \in Angles :
      ~bad_cell_[i] =>
        ImplicitFactorInt(TotalOpacity(i), UDotN(u_tet_[i], a[1], a[2]),
                          a[1], a[2])
          = ImplicitFactorTemp(TotalOpacity(i), UDotN(u_tet_[i], a[1], a[2]),
                               a[1], a[2])

\* C29: the closure correction leaves the intensities at every polar index
\* other than l = zs as they were.
C29_CorrectionWritesFirstRingOnly ==
  [][pc = "edd" =>
       \A x \in DOMAIN cons_rad :
         AngleOf(x[3])[1] # zs => cons_rad'[x] = cons_rad[x]]_vars

\* a flagged cell, which the intensity update skipped: the correction
\* changed its ring l = zs and nothing else of it
C29_Witness ==
  /\ pc = "moments_new" /\ edd_fix
  /\ \E i \in Cells :
       /\ bad_cell_[i]
       /\ \E a \in Angles :
            a[1] = zs /\ Rad(cons_rad, row, i, a[1], a[2])
                           # Rad(cons_rad_in, row, i, a[1], a[2])
       /\ \A a \in Angles :
            a[1] # zs => Rad(cons_rad, row, i, a[1], a[2])
                           = Rad(cons_rad_in, row, i, a[1], a[2])

\* C30: the value the intensity update stores for an angle is the minimum
\* of the value it computed and 0, and so is each value the closure
\* correction stores.
C30_StoredIsMinimumWithZero ==
  [][/\ pc = "intensity" =>
          \A x \in DOMAIN cons_rad :
            (x[1] = row /\ ~bad_cell_[x[2]]) =>
              cons_rad'[x] =
                StdMin(IntensityStep_Unclamped(cons_rad, u_tet_[x[2]],
                         PrimOf(x[2]), OpacityOf(x[2]), row, x[2],
                         AngleOf(x[3])[1], AngleOf(x[3])[2],
                         tt_plus_[x[2]], ee_f_plus_[x[2]]), Zero)
     /\ (pc = "edd" /\ edd_fix) =>
          \A x \in DOMAIN cons_rad :
            (x[1] = row /\ AngleOf(x[3])[1] = zs) =>
              cons_rad'[x] =
                StdMin(EddCorrect_Unclamped(cons_rad, u_tet_[x[2]], row,
                                            x[2])[AngleOf(x[3])[2]], Zero)
    ]_vars

C30_Witness ==
  /\ pc = "moments_new" /\ edd_fix
  /\ \E i \in Cells : \E a \in Angles :
       /\ ~bad_cell_[i] /\ a[1] # zs
       /\ Rad(cons_rad, row, i, a[1], a[2]) = Zero
       /\ Gt(Rad(cons_rad_in, row, i, a[1], a[2]), Zero)
  /\ \E i \in Cells :
       /\ edd_moments_[i][0] # Zero
       /\ \E m \in ps..pe : Lt(Rad(cons_rad, row, i, zs, m), Zero)

\* ------------------------------------------------------------------------
\* Properties of FourthPolyRoot
\* ------------------------------------------------------------------------
\* C6: whenever FourthPolyRoot returns true, the value stored in *root is a
\* real number that is not negative, for negative coef4 as well as positive.
C6_TrueMeansRealNonNegativeRoot ==
  (pc = "root_done" /\ rootOut.flag)
    => (IsNum(rootOut.root) /\ rootOut.root.v >= 0)

\* an input in units of the grid step 1/RootGrid
GridUnits(x) == (x.v * RootGrid) \div Scale

\* coef4*x^4 + x + tconst = 0 has a real root x > 0.  For coef4 > 0 the
\* polynomial increases on x > 0 from tconst; for coef4 = 0 the root is
\* -tconst; for coef4 < 0 it starts at tconst and ends below zero, with
\* maximum (3/4)*(4*|coef4|)^(-1/3) + tconst, which is not negative exactly
\* when 256*|coef4|*|tconst|^3 <= 27.
HasPositiveRoot(a, c) ==
  LET n == GridUnits(a)
      m == GridUnits(c)
  IN IF n >= 0 THEN m < 0
     ELSE m >= 0
          \/ 256 * AbsI(n) * AbsI(m) * AbsI(m) * AbsI(m)
               <= 27 * RootGrid * RootGrid * RootGrid * RootGrid

\* C7: for every input whose quartic has a real positive root FourthPolyRoot
\* returns true with a positive real root, and for every input with no real
\* positive root it returns false.
C7_TrueExactlyWhenPositiveRoot ==
  pc = "root_done"
    => IF HasPositiveRoot(coef4, tconst)
       THEN rootOut.flag /\ IsNum(rootOut.root) /\ rootOut.root.v > 0
       ELSE ~rootOut.flag

\* ------------------------------------------------------------------------
\* Properties of CalculateFluxes and FluxDivergence
\* ------------------------------------------------------------------------
\* C10: while CalculateFluxes runs and when it has returned, every entry of
\* the intensity array has the value it had on entry, for every stage index
\* and block shape.
C10_FluxesLeaveIntensity ==
  fpc \in {"flux", "flux_done"} => ir = ir_in

C10_Witness ==
  /\ fpc = "flux_done"
  /\ block_size.nx2 > 1 /\ block_size.nx3 > 1
  /\ \E f \in FaceIdx : flux_writes[f] > 0 /\ flux[f] # Zero

\* the flux of face f as each of the two routines computes it from the
\* intensity CalculateFluxes was given
FirstOrderAt(f) ==
  FirstOrderFlux(ir_in, f[1], <<f[2], f[3], f[4]>>,
                 FaceVelocity(f[1], <<f[2], f[3], f[4]>>))

SecondOrderAt(f) ==
  SecondOrderFlux(ir_in, f[1], <<f[2], f[3], f[4]>>,
                  FaceVelocity(f[1], <<f[2], f[3], f[4]>>))

\* C11: every row's flux was computed by the first-order routine exactly
\* when the stage index is 1 and by the second-order routine otherwise, in
\* every dimension of the call.
C11_OrderByStageAlone ==
  fpc \in {"flux", "flux_done"} =>
    /\ \A x \in DOMAIN order_used :
         order_used[x] # "none" =>
           order_used[x] = IF step = 1 THEN "first" ELSE "second"
    /\ \A f \in FaceIdx :
         flux_writes[f] > 0 =>
           flux[f] = IF step = 1 THEN FirstOrderAt(f) ELSE SecondOrderAt(f)

C11_Witness ==
  /\ fpc = "flux_done" /\ step = 1
  /\ \E f \in FaceIdx :
       /\ f[1] = 3 /\ flux_writes[f] > 0
       /\ FirstOrderAt(f) # SecondOrderAt(f)
       /\ order_used[<<3, f[2], f[3]>>] = "first"

\* dimensions in which the block has more than one cell
ActiveDims ==
  {1} \cup (IF block_size.nx2 > 1 THEN {2} ELSE {})
      \cup (IF block_size.nx3 > 1 THEN {3} ELSE {})

\* C12: the update of every cell uses the face terms of exactly the active
\* dimensions of the block.
C12_OnlyActiveDimensions ==
  fpc \in {"div", "done"} =>
    \A c \in CellIdx : div_terms[c] # {} => div_terms[c] = ActiveDims

\* C13: both faces of every dimension used in a cell's update were stored
\* by CalculateFluxes in the same substep.
C13_ReadFacesWereWritten ==
  fpc \in {"div", "done"} =>
    \A c \in CellIdx : \A d \in div_terms[c] :
      flux_writes[Face(d, c)] > 0 /\ flux_writes[Face(d, Shift(d, c, 1))] > 0

\* C14: no face of the flux arrays and no cell of the intensity array is
\* stored more than once in a substep, and when FluxDivergence has
\* returned every active cell was stored exactly once.
C14_WritesPartition ==
  fpc # "idle" =>
    /\ \A f \in FaceIdx : flux_writes[f] <= 1
    /\ \A c \in CellIdx : ir_writes[c] <= 1
    /\ fpc = "done" => \A c \in ActiveCells : ir_writes[c] = 1

\* the intensity given to CalculateFluxes is the same in every cell and the
\* signal speed is the same at every face of each dimension
UniformField ==
  /\ \A c \in CellIdx : ir_in[c] = ir_in[<<0, 0, 0>>]
  /\ \A d \in 1..3 : \A c \in ActiveCells :
       /\ FaceVelocity(d, c) = FaceVelocity(d, <<ks, js, is>>)
       /\ FaceVelocity(d, Shift(d, c, 1)) = FaceVelocity(d, <<ks, js, is>>)

EqualFaceAreas ==
  \A d \in 1..3 : \A c \in ActiveCells :
    FaceArea(d, c) = FaceArea(d, Shift(d, c, 1))

\* every face the divergence read was stored in this substep
ReadFacesStored ==
  \A c \in CellIdx : \A d \in div_terms[c] :
    flux_writes[Face(d, c)] > 0 /\ flux_writes[Face(d, Shift(d, c, 1))] > 0

RECURSIVE SumOver(_, _)
SumOver(S, F) ==
  IF S = {} THEN Zero
  ELSE LET c == CHOOSE x \in S : TRUE
       IN Add(F[c], SumOver(S \ {c}, F))

\* volume-weighted sum of the field f over the active cells
VolumeSum(f) ==
  SumOver(ActiveCells, [c \in ActiveCells |-> Mul(CellVolume(c), f[c])])

\* area-weighted flux leaving the block through its outer faces, less the
\* flux entering through them, over the active dimensions
lo(d) == IF d = 1 THEN is ELSE IF d = 2 THEN js ELSE ks
hi(d) == IF d = 1 THEN ie ELSE IF d = 2 THEN je ELSE ke
OuterFlux(d) ==
  Sub(SumOver({c \in ActiveCells : Along(d, c) = hi(d)},
              [c \in ActiveCells |-> UpperTerm(d, c)]),
      SumOver({c \in ActiveCells : Along(d, c) = lo(d)},
              [c \in ActiveCells |-> LowerTerm(d, c)]))
NetOuterFlux == SumOver(ActiveDims, [d \in ActiveDims |-> OuterFlux(d)])

\* rounding of one update per active cell
BalanceTol == 4 * Cardinality(ActiveCells)

Balanced ==
  LET change == Sub(VolumeSum(ir), VolumeSum(ir_div))
      out == Neg(Mul(StepDt, NetOuterFlux))
  IN IsNum(change) /\ IsNum(out) /\ AbsI(change.v - out.v) <= BalanceTol

\* C28: over one call of FluxDivergence the volume-weighted sum of the
\* intensity over the active cells changes by minus the time increment
\* times the net area-weighted flux through the outer faces of the block.
C28_DivergenceConservative ==
  fpc = "done" => Balanced

\* the calls in which the loop over i is shared out as written and the
\* dimensions the two functions treat are the same
OneWriterPerCell == \A c \in ActiveCells : ir_writes[c] = 1
SameDimensions == \A c \in ActiveCells : div_terms[c] = ActiveDims

C28_ConservativeWhenPartitioned ==
  (fpc = "done" /\ OneWriterPerCell /\ SameDimensions) => Balanced

C28_PartitionedWitness ==
  /\ fpc = "done" /\ OneWriterPerCell /\ SameDimensions
  /\ nthreads > 1 /\ block_size.nx3 > 1 /\ coord = "radial"
  /\ VolumeSum(ir) # VolumeSum(ir_div)

\* ------------------------------------------------------------------------
\* Properties of AngleInd
\* ------------------------------------------------------------------------
\* the pair that follows a in the scan with l outer and m inner
ScanNext(a) ==
  IF a[2] + 1 < npsi + 2 * NGHOST_RAD THEN <<a[1], a[2] + 1>>
  ELSE <<a[1] + 1, 0>>

BothReturned == ang_ret[1] # -1 /\ ang_ret[2] # -1

\* C18: AngleInd gives different pairs (l, m) of the angular grid, with
\* 0 <= m < npsi + 2*NGHOST_RAD, different flat indices, and gives the pair
\* that follows another in the scan (l outer, m inner) the next index.
C18_AngleIndDistinctScanOrder ==
  (ang_ret # <<>> /\ BothReturned) =>
    /\ ang_args[1] # ang_args[2] => ang_ret[1] # ang_ret[2]
    /\ ang_args[2] = ScanNext(ang_args[1]) => ang_ret[2] = ang_ret[1] + 1

C18_Witness ==
  /\ ang_ret # <<>> /\ BothReturned
  /\ ang_args[1][2] = npsi + 2 * NGHOST_RAD - 1
  /\ ang_args[2] = ScanNext(ang_args[1])
  /\ ang_ret[2] = ang_ret[1] + 1

\* ------------------------------------------------------------------------
\* Properties of the problem setup
\* ------------------------------------------------------------------------
\* C19: when the number of angles differs from the size of G0_iang, the
\* setup stops before any intensity is taken from the table.
C19_MismatchFailsFast ==
  (spc # "idle" /\ nang # G0_iang_size) => g0_reads = {}

====
